---- MODULE Spec2Model ----
(***************************************************************************)
(* A model of the pokerlib hand state machine (package pokerlib, game.go): *)
(* one hand of poker driven by Start, ReadyForAll, PayAnte, PayBlinds, the *)
(* betting actions and Next.  The game state is the GameState value        *)
(* {Meta, Status, Players, Result}; every API call is one action that runs *)
(* the whole event cascade the call triggers.                              *)
(*                                                                         *)
(* The functions of game.go are translated from the source.  player.go,    *)
(* game_event.go, game_actions.go, the pot package and the settlement are  *)
(* not part of the sources at hand: they are modelled from the description *)
(* of the engine and from what the tests of the repository observe.        *)
(***************************************************************************)
EXTENDS Integers, Sequences, FiniteSets, TLC

(***************************************************************************)
(* Bounds of the model.                                                    *)
(***************************************************************************)
\* the largest table that is explored (seats 0 .. MaxPlayers-1)
MaxPlayers == 3

\* the number of deck orders ShuffleCards may return in the model
MaxShuffles == 1

\* the most chips the seats of a table bring to it together
MaxChips == 60

\* how often a driver calls Next while the current round is not closed
MaxEarlyNext == 1

(***************************************************************************)
(* Program constants.                                                      *)
(***************************************************************************)
\* NewStandardDeckCards: 4 suits of 13 points
DeckSize == 52

NumPoints == 13

\* standard options: two hole cards per player
HoleCardsCount == 2

NoPlayer == -1

ErrNil == "nil"

Rounds == <<"preflop", "flop", "turn", "river">>

(***************************************************************************)
(* Small helpers.                                                          *)
(***************************************************************************)
Min(a, b) == IF a < b THEN a ELSE b

Max(a, b) == IF a > b THEN a ELSE b

RECURSIVE SumOver(_, _)
SumOver(f, S) ==
    IF S = {} THEN 0
    ELSE LET x == CHOOSE y \in S : TRUE IN f[x] + SumOver(f, S \ {x})

RECURSIVE SumSeq(_)
SumSeq(s) == IF s = <<>> THEN 0 ELSE Head(s) + SumSeq(Tail(s))

SeqToSet(s) == {s[k] : k \in 1..Len(s)}

Pow2(n) == 2 ^ n

(***************************************************************************)
(* Cards.  A card is its index 0..51 in NewStandardDeckCards: suit-major,  *)
(* point-minor ("S2" = 0, "S3" = 1, ..., "CA" = 51).                       *)
(***************************************************************************)
NewStandardDeckCards == [k \in 1..DeckSize |-> k - 1]

CardPoint(c) == c % NumPoints

Reverse(s) == [k \in 1..Len(s) |-> s[Len(s) + 1 - k]]

\* a deck order in which the first two pairs of hole cards have equal points
TiedOrder(s) ==
    [k \in 1..Len(s) |->
        IF Len(s) < 2 * NumPoints THEN s[k]
        ELSE CASE k = 1 -> s[NumPoints]
               [] k = 2 -> s[NumPoints - 1]
               [] k = 3 -> s[2 * NumPoints]
               [] k = 4 -> s[2 * NumPoints - 1]
               [] k = NumPoints -> s[1]
               [] k = NumPoints - 1 -> s[2]
               [] k = 2 * NumPoints -> s[3]
               [] k = 2 * NumPoints - 1 -> s[4]
               [] OTHER -> s[k]]

\* ShuffleCards returns a random permutation of its input; the model draws
\* it from MaxShuffles + 1 fixed permutations.
ShuffleCards(cards) ==
    {cards : k \in {0} \cap (0..MaxShuffles)}
        \cup {TiedOrder(cards) : k \in {1} \cap (0..MaxShuffles)}
        \cup {Reverse(cards) : k \in {2} \cap (0..MaxShuffles)}
        \cup {Reverse(TiedOrder(cards)) : k \in (3..MaxShuffles)}

(***************************************************************************)
(* Game options the model explores (GameOptions, PlayerSetting).           *)
(***************************************************************************)
\* bankrolls a seat may be given, in increasing order; 0 is rejected by Start
BankrollLadder == <<10, 15, 25>>

BankrollChoices == SeqToSet(BankrollLadder)

\* the bankrolls of a table of n seats: all equal, or the ladder rotated,
\* with at most MaxChips on the table
BankrollVectors(n) ==
    { br \in { [i \in 0..(n - 1) |-> b] : b \in BankrollChoices }
                \cup { [i \in 0..(n - 1) |->
                          BankrollLadder[((i + k) % Len(BankrollLadder)) + 1]] :
                       k \in 0..(Len(BankrollLadder) - 1) } :
        SumOver(br, 0..(n - 1)) <= MaxChips }

\* blind schedules {Dealer, SB, BB}
StandardBlind == [Dealer |-> 0, SB |-> 5, BB |-> 10]

DealerBlind == [Dealer |-> 10, SB |-> 0, BB |-> 0]

BigBlindOnly == [Dealer |-> 0, SB |-> 0, BB |-> 10]

\* <<ante, blind schedule>> of a hand
StakeChoices ==
    { <<0, StandardBlind>>, <<10, StandardBlind>>,
      <<0, DealerBlind>>, <<0, BigBlindOnly>> }

\* chip amounts a driver may pass to Bet
BetChoices == {5, 10}

\* chip levels a driver may pass to Raise
RaiseChoices == {15, 20, 25}

\* positions of seat i on a table of n seats whose button is at seat d
PositionsOf(n, d, i) ==
    IF n = 1 THEN {"dealer"}
    ELSE IF n = 2 THEN (IF i = d THEN {"dealer", "sb"} ELSE {"bb"})
    ELSE (IF i = d THEN {"dealer"} ELSE {})
            \cup (IF i = (d + 1) % n THEN {"sb"} ELSE {})
            \cup (IF i = (d + 2) % n THEN {"bb"} ELSE {})

\* the button is at the first seat, or at the last one of a table whose
\* bankrolls all are the smallest one
DealerSeats(n, br) ==
    {0} \cup {n - 1 : i \in {j \in {0} : \A k \in DOMAIN br : br[k] = BankrollLadder[1]}}

\* well-formed options: 2..MaxPlayers seats, a dealer, positive bankrolls, a deck
GoodOptions ==
    UNION { UNION { UNION {
        { [Ante |-> st[1], Blind |-> st[2], Deck |-> NewStandardDeckCards,
           HoleCardsCount |-> HoleCardsCount,
           Players |-> [i \in 0..(n - 1) |->
                          [Positions |-> PositionsOf(n, d, i),
                           Bankroll |-> br[i]]]] :
            st \in StakeChoices } :
        d \in DealerSeats(n, br) } :
        br \in BankrollVectors(n) } :
        n \in 2..MaxPlayers }

\* options Start must reject: every combination of the four defects
\* (one seat only, no dealer position, a bankroll of 0, an empty deck)
BadOptions ==
    { [Ante |-> 0, Blind |-> StandardBlind,
       Deck |-> IF noDeck THEN <<>> ELSE NewStandardDeckCards,
       HoleCardsCount |-> HoleCardsCount,
       Players |-> [i \in 0..(n - 1) |->
                      [Positions |-> IF noDealer THEN PositionsOf(n, 0, i) \ {"dealer"}
                                     ELSE PositionsOf(n, 0, i),
                       Bankroll |-> IF i = n - 1 THEN br ELSE BankrollLadder[1]]]] :
        <<n, noDealer, br, noDeck>> \in
            { <<n, noDealer, br, noDeck>> \in (1..2) \X BOOLEAN \X {0, BankrollLadder[1]} \X BOOLEAN :
                n = 1 \/ noDealer \/ br = 0 \/ noDeck } }

AllOptions == GoodOptions \cup BadOptions

(***************************************************************************)
(* The game value.  g.Meta, g.Status, g.Players and g.Result are the       *)
(* fields of GameState; g.Err is the error the running call returns and    *)
(* g.Events the event symbols the running call has emitted so far.         *)
(***************************************************************************)
AddPlayer(idx, setting) ==
    [ Idx |-> idx,
      Positions |-> setting.Positions,
      Bankroll |-> setting.Bankroll,
      InitialStackSize |-> setting.Bankroll,
      StackSize |-> setting.Bankroll,
      Wager |-> 0,
      Pot |-> 0,
      Fold |-> FALSE,
      Acted |-> FALSE,
      VPIP |-> FALSE,
      DidAction |-> "",
      AllowedActions |-> <<>>,
      HoleCards |-> <<>>,
      Combination |-> [Power |-> 0] ]

ApplyOptions(opts) ==
    [ Meta |-> [ Ante |-> opts.Ante,
                 Blind |-> opts.Blind,
                 HoleCardsCount |-> opts.HoleCardsCount,
                 Deck |-> opts.Deck ],
      Status |-> [ Round |-> "",
                   CurrentEvent |-> "",
                   Board |-> <<>>,
                   Burned |-> <<>>,
                   CurrentDeckPosition |-> 0,
                   MiniBet |-> 0,
                   PreviousRaiseSize |-> 0,
                   MaxWager |-> 0,
                   CurrentWager |-> 0,
                   CurrentRoundPot |-> 0,
                   CurrentPlayer |-> 0,
                   CurrentRaiser |-> 0,
                   LastAction |-> <<>>,
                   Pots |-> <<>> ],
      Players |-> [i \in DOMAIN opts.Players |-> AddPlayer(i, opts.Players[i])],
      Result |-> <<>>,
      Err |-> ErrNil,
      Events |-> <<>> ]

NewGame(opts) == ApplyOptions(opts)

GetPlayerCount(g) == Cardinality(DOMAIN g.Players)

Seats(g) == DOMAIN g.Players

CheckPosition(g, i, pos) == pos \in g.Players[i].Positions

\* addPlayer keeps the last seat that holds the position; NoPlayer stands for nil
Dealer(g) ==
    LET S == {i \in Seats(g) : CheckPosition(g, i, "dealer")}
    IN  IF S = {} THEN NoPlayer ELSE CHOOSE i \in S : \A j \in S : j <= i

SmallBlind(g) ==
    LET S == {i \in Seats(g) : CheckPosition(g, i, "sb")}
    IN  IF S = {} THEN NoPlayer ELSE CHOOSE i \in S : \A j \in S : j <= i

BigBlind(g) ==
    LET S == {i \in Seats(g) : ~CheckPosition(g, i, "sb") /\ CheckPosition(g, i, "bb")}
    IN  IF S = {} THEN NoPlayer ELSE CHOOSE i \in S : \A j \in S : j <= i

\* Player(idx): nil outside 0 .. count-1
Player(g, idx) == IF idx < 0 \/ idx >= GetPlayerCount(g) THEN NoPlayer ELSE idx

GetCurrentPlayer(g) == Player(g, g.Status.CurrentPlayer)

\* the count cards at the deck cursor
DealtCards(g, count) ==
    SubSeq(g.Meta.Deck, g.Status.CurrentDeckPosition + 1,
           g.Status.CurrentDeckPosition + count)

\* Deal leaving the cursor where it was
Deal_CursorStays(g, count) == g

\* Deal advances the cursor by count
Deal(g, count) ==
    [g EXCEPT !.Status.CurrentDeckPosition = @ + count]

Burn(g, count) ==
    [Deal(g, count) EXCEPT !.Status.Burned = @ \o DealtCards(g, count)]

\* ResetAllPlayerStatus without "ps.InitialStackSize = ps.StackSize"
ResetAllPlayerStatus_NoSnapshot(g) ==
    [g EXCEPT !.Players =
        [i \in Seats(g) |->
            [g.Players[i] EXCEPT
                !.AllowedActions = <<>>,
                !.Pot = @ + g.Players[i].Wager,
                !.Wager = 0,
                !.DidAction = IF g.Players[i].Fold THEN "fold"
                              ELSE IF g.Players[i].StackSize = 0 THEN "allin"
                              ELSE ""]]]

\* ResetAllPlayerStatus without "ps.Pot += ps.Wager"
ResetAllPlayerStatus_DropsWager(g) ==
    [g EXCEPT !.Players =
        [i \in Seats(g) |->
            [g.Players[i] EXCEPT
                !.AllowedActions = <<>>,
                !.Wager = 0,
                !.InitialStackSize = g.Players[i].StackSize,
                !.DidAction = IF g.Players[i].Fold THEN "fold"
                              ELSE IF g.Players[i].StackSize = 0 THEN "allin"
                              ELSE ""]]]

ResetAllPlayerStatus(g) ==
    [g EXCEPT !.Players =
        [i \in Seats(g) |->
            [g.Players[i] EXCEPT
                !.AllowedActions = <<>>,
                !.Pot = @ + g.Players[i].Wager,
                !.Wager = 0,
                !.InitialStackSize = g.Players[i].StackSize,
                !.DidAction = IF g.Players[i].Fold THEN "fold"
                              ELSE IF g.Players[i].StackSize = 0 THEN "allin"
                              ELSE ""]]]


\* ResetRoundStatus leaving the raise size of the round before
ResetRoundStatus_KeepsRaiseSize(g) ==
    [g EXCEPT !.Status.MaxWager = 0,
              !.Status.CurrentRoundPot = 0,
              !.Status.CurrentWager = 0,
              !.Status.CurrentRaiser = Dealer(g),
              !.Status.CurrentPlayer = Dealer(g)]

\* ResetRoundStatus leaving the wager to match of the round before
ResetRoundStatus_KeepsCurrentWager(g) ==
    [g EXCEPT !.Status.PreviousRaiseSize = 0,
              !.Status.MaxWager = 0,
              !.Status.CurrentRoundPot = 0,
              !.Status.CurrentRaiser = Dealer(g),
              !.Status.CurrentPlayer = Dealer(g)]

ResetRoundStatus(g) ==
    [g EXCEPT !.Status.PreviousRaiseSize = 0,
              !.Status.MaxWager = 0,
              !.Status.CurrentRoundPot = 0,
              !.Status.CurrentWager = 0,
              !.Status.CurrentRaiser = Dealer(g),
              !.Status.CurrentPlayer = Dealer(g)]

\* one step clockwise from the current seat; nil on a table of one seat
NextPlayer(g) ==
    IF GetPlayerCount(g) <= 1 THEN NoPlayer
    ELSE IF g.Status.CurrentPlayer + 1 = GetPlayerCount(g) THEN 0
    ELSE g.Status.CurrentPlayer + 1

\* the seats in playing order, the dealer first
GetPlayers(g) ==
    [k \in 1..GetPlayerCount(g) |-> (Dealer(g) + k - 1) % GetPlayerCount(g)]

GetAlivePlayerCount(g) ==
    GetPlayerCount(g) - Cardinality({i \in Seats(g) : g.Players[i].Fold})

GetMovablePlayerCount(g) ==
    GetPlayerCount(g)
        - Cardinality({i \in Seats(g) : g.Players[i].Fold \/ g.Players[i].StackSize = 0})

\* GetAvailableActions offering call to a stack that only equals the wager
GetAvailableActions_CallAtEqual(g, p) ==
    IF p = NoPlayer THEN <<>>
    ELSE LET ps == g.Players[p]
             st == g.Status
         IN  IF ps.Fold THEN <<"pass">>
             ELSE IF ps.StackSize = 0 THEN <<"pass">>
             ELSE <<"allin">> \o
                  (IF ps.Wager < st.CurrentWager
                   THEN <<"fold">> \o
                        (IF ps.InitialStackSize >= st.CurrentWager
                         THEN <<"call">> \o
                              (IF ps.InitialStackSize > st.CurrentWager + st.PreviousRaiseSize
                               THEN <<"raise">> ELSE <<>>)
                         ELSE <<>>)
                   ELSE <<"check">> \o
                        (IF ps.InitialStackSize >= st.MiniBet
                         THEN (IF st.CurrentWager = 0 THEN <<"bet">> ELSE <<"raise">>)
                         ELSE <<>>))

\* GetAvailableActions without the case of a player that has no chips left
GetAvailableActions_NoZeroStackCase(g, p) ==
    IF p = NoPlayer THEN <<>>
    ELSE LET ps == g.Players[p]
             st == g.Status
         IN  IF ps.Fold THEN <<"pass">>
             ELSE <<"allin">> \o
                  (IF ps.Wager < st.CurrentWager
                   THEN <<"fold">> \o
                        (IF ps.InitialStackSize > st.CurrentWager
                         THEN <<"call">> \o
                              (IF ps.InitialStackSize > st.CurrentWager + st.PreviousRaiseSize
                               THEN <<"raise">> ELSE <<>>)
                         ELSE <<>>)
                   ELSE <<"check">> \o
                        (IF ps.InitialStackSize >= st.MiniBet
                         THEN (IF st.CurrentWager = 0 THEN <<"bet">> ELSE <<"raise">>)
                         ELSE <<>>))

GetAvailableActions(g, p) ==
    IF p = NoPlayer THEN <<>>
    ELSE LET ps == g.Players[p]
             st == g.Status
         IN  IF ps.Fold THEN <<"pass">>
             ELSE IF ps.StackSize = 0 THEN <<"pass">>
             ELSE <<"allin">> \o
                  (IF ps.Wager < st.CurrentWager
                   THEN <<"fold">> \o
                        (IF ps.InitialStackSize > st.CurrentWager
                         THEN <<"call">> \o
                              (IF ps.InitialStackSize > st.CurrentWager + st.PreviousRaiseSize
                               THEN <<"raise">> ELSE <<>>)
                         ELSE <<>>)
                   ELSE <<"check">> \o
                        (IF ps.InitialStackSize >= st.MiniBet
                         THEN (IF st.CurrentWager = 0 THEN <<"bet">> ELSE <<"raise">>)
                         ELSE <<>>))

GetAllowedActions(g, p) ==
    IF g.Status.CurrentPlayer = p THEN GetAvailableActions(g, p) ELSE <<>>

setCurrentPlayer(g, p) == [g EXCEPT !.Status.CurrentPlayer = p]

SetCurrentPlayer(g, p) ==
    LET g1 == IF g.Status.CurrentPlayer # NoPlayer
              THEN [g EXCEPT !.Players[g.Status.CurrentPlayer].AllowedActions = <<>>]
              ELSE g
        g2 == setCurrentPlayer(g1, p)
    IN  IF p # NoPlayer
        THEN [g2 EXCEPT !.Players[p].AllowedActions = GetAllowedActions(g2, p)]
        ELSE g2

\* the dealer is never nil once Start has succeeded
StartAtDealer(g) ==
    IF Dealer(g) = NoPlayer THEN [g EXCEPT !.Err = "ErrNotFoundDealer"]
    ELSE SetCurrentPlayer(g, Dealer(g))

ResetActedPlayers(g) ==
    [g EXCEPT !.Players = [i \in Seats(g) |-> [g.Players[i] EXCEPT !.Acted = FALSE]]]

\* BecomeRaiser without ResetActedPlayers
BecomeRaiser_KeepsActed(g, p) ==
    LET g1 == IF g.Players[p].Wager > 0 THEN [g EXCEPT !.Players[p].VPIP = TRUE] ELSE g
        g2 == [g1 EXCEPT !.Status.CurrentRaiser = p]
    IN  [g2 EXCEPT !.Players[p].Acted = TRUE]

BecomeRaiser(g, p) ==
    LET g1 == IF g.Players[p].Wager > 0 THEN [g EXCEPT !.Players[p].VPIP = TRUE] ELSE g
        g2 == [g1 EXCEPT !.Status.CurrentRaiser = p]
        g3 == ResetActedPlayers(g2)
    IN  [g3 EXCEPT !.Players[p].Acted = TRUE]

\* UpdateLastAction filling a nil lastAction only
UpdateLastAction_OnlyWhenNil(g, source, aType, value) ==
    IF g.Status.LastAction = <<>>
    THEN [g EXCEPT !.Status.LastAction =
            <<[Source |-> source, Type |-> aType, Value |-> value]>>]
    ELSE g

UpdateLastAction(g, source, aType, value) ==
    [g EXCEPT !.Status.LastAction =
        <<[Source |-> source, Type |-> aType, Value |-> value]>>]

(***************************************************************************)
(* The player record's methods (player.go).                                *)
(***************************************************************************)
\* CheckAction accepting every action
CheckAction_Any(g, p, action) == TRUE

CheckAction(g, p, action) == action \in SeqToSet(g.Players[p].AllowedActions)

\* Reset: clears what the last turn left on the player
Reset(g, p) ==
    [g EXCEPT !.Players[p].AllowedActions = <<>>, !.Players[p].Acted = FALSE]

\* pay moves chips from the stack into the wager of the round
pay(g, p, chips) ==
    LET wager == g.Players[p].Wager + chips
    IN  [g EXCEPT !.Players[p].Wager = wager,
                  !.Players[p].StackSize = @ - chips,
                  !.Status.CurrentRoundPot = @ + chips,
                  !.Status.MaxWager = Max(@, wager),
                  !.Status.CurrentWager = Max(@, wager)]


\* a forced payment taking the full amount whatever the stack holds
Pay_Uncapped(g, p, chips) ==
    [g EXCEPT !.Players[p].Wager = @ + chips,
              !.Players[p].StackSize = @ - chips,
              !.Status.CurrentRoundPot = @ + chips]

\* a forced payment (ante, blind): capped at the stack, the target of the
\* round is set by the caller
Pay(g, p, chips) ==
    LET c == Min(chips, g.Players[p].StackSize)
    IN  [g EXCEPT !.Players[p].Wager = @ + c,
                  !.Players[p].StackSize = @ - c,
                  !.Status.CurrentRoundPot = @ + c]

PlayerPass(g, p) ==
    IF ~CheckAction(g, p, "pass") THEN [g EXCEPT !.Err = "ErrIllegalAction"]
    ELSE UpdateLastAction(
            [g EXCEPT !.Players[p].Acted = TRUE, !.Players[p].DidAction = "pass"],
            p, "pass", 0)

PlayerFold(g, p) ==
    IF ~CheckAction(g, p, "fold") THEN [g EXCEPT !.Err = "ErrIllegalAction"]
    ELSE UpdateLastAction(
            [g EXCEPT !.Players[p].Fold = TRUE,
                      !.Players[p].Acted = TRUE,
                      !.Players[p].DidAction = "fold"],
            p, "fold", 0)

\* check leaving the player as one that has not acted
PlayerCheck_NotActed(g, p) ==
    IF ~CheckAction(g, p, "check") THEN [g EXCEPT !.Err = "ErrIllegalAction"]
    ELSE UpdateLastAction([g EXCEPT !.Players[p].DidAction = "check"], p, "check", 0)

PlayerCheck(g, p) ==
    IF ~CheckAction(g, p, "check") THEN [g EXCEPT !.Err = "ErrIllegalAction"]
    ELSE UpdateLastAction(
            [g EXCEPT !.Players[p].Acted = TRUE, !.Players[p].DidAction = "check"],
            p, "check", 0)

\* call recording the caller's whole wager as the value of the action
PlayerCall_RecordsWager(g, p) ==
    IF ~CheckAction(g, p, "call") THEN [g EXCEPT !.Err = "ErrIllegalAction"]
    ELSE LET delta == Min(g.Status.CurrentWager - g.Players[p].Wager,
                          g.Players[p].StackSize)
             g1 == pay(g, p, delta)
         IN  UpdateLastAction(
                [g1 EXCEPT !.Players[p].Acted = TRUE,
                           !.Players[p].VPIP = TRUE,
                           !.Players[p].DidAction = "call"],
                p, "call", g1.Players[p].Wager)

\* call pays the difference to the current wager, capped at the stack
PlayerCall(g, p) ==
    IF ~CheckAction(g, p, "call") THEN [g EXCEPT !.Err = "ErrIllegalAction"]
    ELSE LET delta == Min(g.Status.CurrentWager - g.Players[p].Wager,
                          g.Players[p].StackSize)
             g1 == pay(g, p, delta)
         IN  UpdateLastAction(
                [g1 EXCEPT !.Players[p].Acted = TRUE,
                           !.Players[p].VPIP = TRUE,
                           !.Players[p].DidAction = "call"],
                p, "call", delta)

\* an opening bet: only with no wager to match, at least the mini-bet, at
\* most the stack
PlayerBet(g, p, chips) ==
    IF ~CheckAction(g, p, "bet") THEN [g EXCEPT !.Err = "ErrIllegalAction"]
    ELSE IF chips < g.Status.MiniBet \/ chips > g.Players[p].StackSize
    THEN [g EXCEPT !.Err = "ErrAmountOutOfRange"]
    ELSE LET old == g.Status.CurrentWager
             g1 == pay(g, p, chips)
             g2 == [g1 EXCEPT !.Status.PreviousRaiseSize = g1.Players[p].Wager - old,
                              !.Players[p].DidAction = "bet"]
         IN  UpdateLastAction(BecomeRaiser(g2, p), p, "bet", g2.Players[p].Wager)


\* raise taking any level, whatever the last raise and the stack
PlayerRaise_AnyAmount(g, p, chipLevel) ==
    IF ~CheckAction(g, p, "raise") THEN [g EXCEPT !.Err = "ErrIllegalAction"]
    ELSE LET ps == g.Players[p]
             old == g.Status.CurrentWager
             g1 == pay(g, p, chipLevel - ps.Wager)
             g2 == [g1 EXCEPT !.Status.CurrentWager = chipLevel,
                              !.Status.PreviousRaiseSize = chipLevel - old,
                              !.Players[p].DidAction = "raise"]
         IN  UpdateLastAction(BecomeRaiser(g2, p), p, "raise", chipLevel)

\* a raise to chipLevel: at least a full raise unless it commits the whole
\* stack, and never more than the player can cover
PlayerRaise(g, p, chipLevel) ==
    IF ~CheckAction(g, p, "raise") THEN [g EXCEPT !.Err = "ErrIllegalAction"]
    ELSE LET ps == g.Players[p]
             old == g.Status.CurrentWager
         IN  IF \/ chipLevel > ps.Wager + ps.StackSize
                \/ /\ chipLevel < old + g.Status.PreviousRaiseSize
                   /\ chipLevel # ps.Wager + ps.StackSize
             THEN [g EXCEPT !.Err = "ErrAmountOutOfRange"]
             ELSE LET g1 == pay(g, p, chipLevel - ps.Wager)
                      g2 == [g1 EXCEPT !.Status.CurrentWager = chipLevel,
                                       !.Status.PreviousRaiseSize = chipLevel - old,
                                       !.Players[p].DidAction = "raise"]
                  IN  UpdateLastAction(BecomeRaiser(g2, p), p, "raise", chipLevel)


\* all-in making its player the raiser whenever it tops the current wager
PlayerAllin_AlwaysReopens(g, p) ==
    IF ~CheckAction(g, p, "allin") THEN [g EXCEPT !.Err = "ErrIllegalAction"]
    ELSE LET ps == g.Players[p]
             old == g.Status.CurrentWager
             wager == ps.Wager + ps.StackSize
             g1 == pay(g, p, ps.StackSize)
             g2 == [g1 EXCEPT !.Players[p].Acted = TRUE,
                              !.Players[p].DidAction = "allin"]
             g3 == IF wager > old
                   THEN BecomeRaiser(
                            [g2 EXCEPT !.Status.PreviousRaiseSize = wager - old], p)
                   ELSE g2
         IN  UpdateLastAction(g3, p, "allin", wager)

\* all-in commits the whole stack; it reopens the betting only when it is a
\* full raise over the current wager
PlayerAllin(g, p) ==
    IF ~CheckAction(g, p, "allin") THEN [g EXCEPT !.Err = "ErrIllegalAction"]
    ELSE LET ps == g.Players[p]
             old == g.Status.CurrentWager
             wager == ps.Wager + ps.StackSize
             g1 == pay(g, p, ps.StackSize)
             g2 == [g1 EXCEPT !.Players[p].Acted = TRUE,
                              !.Players[p].DidAction = "allin"]
             g3 == IF wager > old /\ wager >= old + g.Status.PreviousRaiseSize
                   THEN BecomeRaiser(
                            [g2 EXCEPT !.Status.PreviousRaiseSize = wager - old], p)
                   ELSE g2
         IN  UpdateLastAction(g3, p, "allin", wager)

(***************************************************************************)
(* Hand evaluation (combination package), reduced to a high-card order: a  *)
(* hand is worth the set of points it holds, higher points first.          *)
(***************************************************************************)
PowerOf(cards) ==
    LET points == {CardPoint(c) : c \in SeqToSet(cards)}
        weight == [r \in points |-> Pow2(r)]
    IN  SumOver(weight, points)

\* recomputes the combination of every player still in the hand
UpdateCombinationOfAllPlayers(g) ==
    [g EXCEPT !.Players =
        [i \in Seats(g) |->
            IF g.Players[i].Fold THEN g.Players[i]
            ELSE [g.Players[i] EXCEPT
                    !.Combination = [Power |-> PowerOf(g.Players[i].HoleCards \o g.Status.Board)]]]]

(***************************************************************************)
(* Side pots (pot package).  The pots are rebuilt from what every player   *)
(* has committed in the hand; a level is opened by each distinct amount    *)
(* committed by a player still in the hand, and the chips of folded        *)
(* players fall into the levels they reach.                                *)
(***************************************************************************)
Committed(g, i) == g.Players[i].Pot + g.Players[i].Wager

\* the levels opened by every distinct amount committed, folded players too
PotLevels_OfAllPlayers(g) == {Committed(g, i) : i \in Seats(g)} \ {0}

\* the distinct positive amounts committed by the players still in the hand
PotLevels(g) == {Committed(g, i) : i \in {j \in Seats(g) : ~g.Players[j].Fold}} \ {0}

RECURSIVE BuildPots(_, _, _)
BuildPots(g, levels, below) ==
    IF levels = {} THEN <<>>
    ELSE LET c == CHOOSE x \in levels : \A y \in levels : x <= y
             top == levels = {c}
             share == [i \in Seats(g) |->
                         IF top /\ g.Players[i].Fold
                         THEN Max(Committed(g, i), below) - below
                         ELSE Min(Committed(g, i), c) - Min(Committed(g, i), below)]
         IN  << [ Level |-> c - below,
                  Total |-> SumOver(share, Seats(g)),
                  Contributors |-> {i \in Seats(g) :
                                        ~g.Players[i].Fold /\ Committed(g, i) >= c},
                  Winners |-> {} ] >>
             \o BuildPots(g, levels \ {c}, c)

UpdatePots(g) == [g EXCEPT !.Status.Pots = BuildPots(g, PotLevels(g), 0)]

(***************************************************************************)
(* Settlement (settlement package).                                        *)
(***************************************************************************)
\* the contributors of a pot that hold the highest power
PotWinners(g, pot) ==
    {i \in pot.Contributors :
        \A j \in pot.Contributors :
            g.Players[j].Combination.Power <= g.Players[i].Combination.Power}

\* the seat of S that comes first clockwise from the dealer
FirstFromDealer(g, S) ==
    LET n == GetPlayerCount(g)
        dist(i) == (i - Dealer(g) - 1 + 2 * n) % n
    IN  CHOOSE i \in S : \A j \in S : dist(i) <= dist(j)

\* PotAward keeping the odd chips of a split
PotAward_DropsOddChips(g, pot, i) ==
    LET W == PotWinners(g, pot)
    IN  IF i \notin W THEN 0 ELSE pot.Total \div Cardinality(W)

\* what seat i receives from a pot: an equal share, the odd chips to the
\* first winner clockwise from the dealer
PotAward(g, pot, i) ==
    LET W == PotWinners(g, pot)
    IN  IF i \notin W THEN 0
        ELSE (pot.Total \div Cardinality(W))
                + (IF i = FirstFromDealer(g, W) THEN pot.Total % Cardinality(W) ELSE 0)

Awarded(g, i) ==
    SumSeq([k \in 1..Len(g.Status.Pots) |-> PotAward(g, g.Status.Pots[k], i)])

\* the result of the hand: what every player ends with and the change
\* against the bankroll
CalculateGameResults(g) ==
    LET g1 == UpdatePots(g)
        g2 == [g1 EXCEPT !.Status.Pots =
                  [k \in 1..Len(g1.Status.Pots) |->
                      [g1.Status.Pots[k] EXCEPT !.Winners = PotWinners(g1, g1.Status.Pots[k])]]]
    IN  [g2 EXCEPT !.Result =
            << [ Players |->
                   [i \in Seats(g2) |->
                      [ Idx |-> i,
                        Final |-> g2.Players[i].StackSize + Awarded(g2, i),
                        Changed |-> g2.Players[i].StackSize + Awarded(g2, i)
                                        - g2.Players[i].Bankroll ]] ] >>]

(***************************************************************************)
(* Events and the transitions they trigger (game.go, game_event.go).       *)
(***************************************************************************)
RECURSIVE EmitEvent(_, _)

ResetAllPlayerAllowedActions(g) ==
    [g EXCEPT !.Players =
        [i \in Seats(g) |-> Reset(g, i).Players[i]]]

\* RequestPlayerAction closing the round when the turn comes back to the
\* current raiser, whoever has acted
RequestPlayerAction_ClosesAtRaiser(g) ==
    IF GetAlivePlayerCount(g) = 1 THEN EmitEvent(g, "RoundClosed")
    ELSE IF GetMovablePlayerCount(g) = 0 THEN EmitEvent(g, "RoundClosed")
    ELSE IF NextPlayer(g) = g.Status.CurrentRaiser THEN EmitEvent(g, "RoundClosed")
    ELSE SetCurrentPlayer(g, NextPlayer(g))

\* RequestPlayerAction closing the round as soon as one player only can move
RequestPlayerAction_ClosesAtOneMovable(g) ==
    IF GetAlivePlayerCount(g) = 1 THEN EmitEvent(g, "RoundClosed")
    ELSE IF GetMovablePlayerCount(g) <= 1 THEN EmitEvent(g, "RoundClosed")
    ELSE IF g.Players[NextPlayer(g)].Acted THEN EmitEvent(g, "RoundClosed")
    ELSE SetCurrentPlayer(g, NextPlayer(g))

RequestPlayerAction(g) ==
    IF GetAlivePlayerCount(g) = 1 THEN EmitEvent(g, "RoundClosed")
    ELSE IF GetMovablePlayerCount(g) = 0 THEN EmitEvent(g, "RoundClosed")
    ELSE IF g.Players[NextPlayer(g)].Acted THEN EmitEvent(g, "RoundClosed")
    ELSE SetCurrentPlayer(g, NextPlayer(g))

\* the shuffle is drawn by the caller; Initialize installs it
Initialize(g, deck) ==
    LET g1 == [g EXCEPT !.Meta.Deck = deck,
                        !.Status.MiniBet =
                            IF g.Meta.Blind.Dealer > g.Meta.Blind.BB
                            THEN g.Meta.Blind.Dealer ELSE g.Meta.Blind.BB]
    IN  EmitEvent(ResetRoundStatus(g1), "Initialized")

RequestReady(g) == EmitEvent(ResetAllPlayerAllowedActions(g), "ReadyRequested")

Prepare(g) == RequestReady(g)

RequestAnte(g) == EmitEvent(g, "AnteRequested")

RequestBlinds(g) ==
    IF g.Meta.Blind.Dealer = 0 /\ g.Meta.Blind.SB = 0 /\ g.Meta.Blind.BB > 0
    THEN EmitEvent(g, "BlindsPaid")
    ELSE EmitEvent(g, "BlindsRequested")

EnterPreflopRound(g) ==
    EmitEvent([g EXCEPT !.Status.Round = "preflop"], "PreflopRoundEntered")

EnterFlopRound(g) ==
    EmitEvent([g EXCEPT !.Status.Round = "flop"], "FlopRoundEntered")

EnterTurnRound(g) ==
    EmitEvent([g EXCEPT !.Status.Round = "turn"], "TurnRoundEntered")

EnterRiverRound(g) ==
    EmitEvent([g EXCEPT !.Status.Round = "river"], "RiverRoundEntered")

\* nextRound without the test for a single player alive
nextRound_AlwaysAdvances(g) ==
    LET g1 == ResetAllPlayerStatus(ResetRoundStatus(g))
    IN  CASE g1.Status.Round = "preflop" -> EnterFlopRound(g1)
          [] g1.Status.Round = "flop" -> EnterTurnRound(g1)
          [] g1.Status.Round = "turn" -> EnterRiverRound(g1)
          [] g1.Status.Round = "river" -> EmitEvent(g1, "GameCompleted")
          [] OTHER -> [g1 EXCEPT !.Err = "ErrUnknownRound"]

nextRound(g) ==
    LET g1 == ResetAllPlayerStatus(ResetRoundStatus(g))
    IN  IF GetAlivePlayerCount(g1) = 1 THEN EmitEvent(g1, "GameCompleted")
        ELSE CASE g1.Status.Round = "preflop" -> EnterFlopRound(g1)
               [] g1.Status.Round = "flop" -> EnterTurnRound(g1)
               [] g1.Status.Round = "turn" -> EnterRiverRound(g1)
               [] g1.Status.Round = "river" -> EmitEvent(g1, "GameCompleted")
               [] OTHER -> [g1 EXCEPT !.Err = "ErrUnknownRound"]

\* hole cards are dealt seat by seat from the deck cursor
DealHoleCards(g) ==
    LET h == g.Meta.HoleCardsCount
        pos == g.Status.CurrentDeckPosition
    IN  [g EXCEPT !.Players =
                    [i \in Seats(g) |->
                        [g.Players[i] EXCEPT
                            !.HoleCards = SubSeq(g.Meta.Deck, pos + i * h + 1,
                                                 pos + (i + 1) * h)]],
                  !.Status.CurrentDeckPosition = pos + GetPlayerCount(g) * h]

\* burn one card and deal count board cards
DealBoard(g, count) ==
    LET g1 == Burn(g, 1)
    IN  [Deal(g1, count) EXCEPT !.Status.Board = @ \o DealtCards(g1, count)]

\* InitializeRound dealing the flop without burning a card
InitializeRound_FlopWithoutBurn(g) ==
    LET g1 == CASE g.Status.Round = "preflop" -> DealHoleCards(g)
                [] g.Status.Round = "flop" ->
                      StartAtDealer([Deal(g, 3) EXCEPT !.Status.Board = @ \o DealtCards(g, 3)])
                [] g.Status.Round \in {"turn", "river"} -> StartAtDealer(DealBoard(g, 1))
                [] OTHER -> g
    IN  IF g1.Err # ErrNil THEN g1
        ELSE EmitEvent(UpdateCombinationOfAllPlayers(g1), "RoundInitialized")

InitializeRound(g) ==
    LET g1 == CASE g.Status.Round = "preflop" -> DealHoleCards(g)
                [] g.Status.Round = "flop" -> StartAtDealer(DealBoard(g, 3))
                [] g.Status.Round \in {"turn", "river"} -> StartAtDealer(DealBoard(g, 1))
                [] OTHER -> g
    IN  IF g1.Err # ErrNil THEN g1
        ELSE EmitEvent(UpdateCombinationOfAllPlayers(g1), "RoundInitialized")

\* PrepareRound closing a postflop round only when nobody can move
PrepareRound_OnlyWhenNobodyMoves(g) ==
    IF g.Status.Round = "preflop" THEN RequestReady(g)
    ELSE IF GetMovablePlayerCount(g) = 0 THEN EmitEvent(g, "RoundClosed")
    ELSE RequestReady(g)

PrepareRound(g) ==
    IF g.Status.Round = "preflop" THEN RequestReady(g)
    ELSE IF GetMovablePlayerCount(g) <= 1 THEN EmitEvent(g, "RoundClosed")
    ELSE RequestReady(g)

\* the preflop walk from the dealer to the big blind: i counts the
\* iterations of the loop that are left
RECURSIVE FindBigBlind(_, _)
FindBigBlind(g, i) ==
    IF i = 0 THEN g
    ELSE IF CheckPosition(g, NextPlayer(g), "bb")
    THEN SetCurrentPlayer(g, NextPlayer(g))
    ELSE FindBigBlind(SetCurrentPlayer(g, NextPlayer(g)), i - 1)

\* StartRound starting the preflop round at the dealer like the later rounds
StartRound_AtDealer(g) ==
    LET g1 == ResetAllPlayerAllowedActions(g)
    IN  IF g1.Status.Round = "preflop" /\ GetMovablePlayerCount(g1) = 0
        THEN EmitEvent(g1, "RoundClosed")
        ELSE LET g2 == StartAtDealer(g1)
             IN  IF g2.Err # ErrNil THEN g2 ELSE EmitEvent(g2, "RoundStarted")

\* StartRound walking to the big blind in every round, as preflop does
StartRound_FromBigBlind(g) ==
    LET g1 == ResetAllPlayerAllowedActions(g)
    IN  IF g1.Status.Round = "preflop" /\ GetMovablePlayerCount(g1) = 0
        THEN EmitEvent(g1, "RoundClosed")
        ELSE EmitEvent(
                FindBigBlind(SetCurrentPlayer(g1, Dealer(g1)), GetPlayerCount(g1)),
                "RoundStarted")

StartRound(g) ==
    LET g1 == ResetAllPlayerAllowedActions(g)
    IN  IF g1.Status.Round = "preflop"
        THEN IF GetMovablePlayerCount(g1) = 0 THEN EmitEvent(g1, "RoundClosed")
             ELSE EmitEvent(
                     FindBigBlind(SetCurrentPlayer(g1, Dealer(g1)), GetPlayerCount(g1)),
                     "RoundStarted")
        ELSE LET g2 == StartAtDealer(g1)
             IN  IF g2.Err # ErrNil THEN g2 ELSE EmitEvent(g2, "RoundStarted")

\* the ante is collected: it leaves the wagers for the players' pots
onAntePaid(g) == EnterPreflopRound(ResetAllPlayerStatus(ResetRoundStatus(g)))

\* a closed round waits for Next: nobody is to act, the pots are rebuilt
onRoundClosed(g) == UpdatePots(SetCurrentPlayer(g, NoPlayer))

\* the hand is over: settle it and close the game
onGameCompleted(g) ==
    LET g1 == SetCurrentPlayer(g, NoPlayer)
        g2 == CalculateGameResults(
                 [g1 EXCEPT !.Events = @ \o <<"SettlementRequested">>])
    IN  [g2 EXCEPT !.Events = @ \o <<"SettlementCompleted", "GameClosed">>,
                   !.Status.CurrentEvent = "GameClosed"]

EmitEvent(g, event) ==
    LET g1 == [g EXCEPT !.Status.CurrentEvent = event, !.Events = Append(@, event)]
    IN  CASE event = "Initialized" -> Prepare(g1)
          [] event = "AntePaid" -> onAntePaid(g1)
          [] event = "BlindsPaid" -> PrepareRound(g1)
          [] event \in {"PreflopRoundEntered", "FlopRoundEntered",
                        "TurnRoundEntered", "RiverRoundEntered"} -> InitializeRound(g1)
          [] event = "RoundInitialized" ->
                IF g1.Status.Round = "preflop" THEN RequestBlinds(g1)
                ELSE PrepareRound(g1)
          [] event = "RoundPrepared" -> StartRound(g1)
          [] event = "RoundStarted" -> RequestPlayerAction(g1)
          [] event = "RoundClosed" -> onRoundClosed(g1)
          [] event = "GameCompleted" -> onGameCompleted(g1)
          [] OTHER -> g1

(***************************************************************************)
(* The calls of the Game interface, as functions of the game value.        *)
(***************************************************************************)
\* Start looking at the deck before the players
Start_DeckFirst(g, deck) ==
    IF Len(g.Meta.Deck) = 0 THEN [g EXCEPT !.Err = "ErrNoDeck"]
    ELSE IF GetPlayerCount(g) < 2 THEN [g EXCEPT !.Err = "ErrInsufficientNumberOfPlayers"]
    ELSE IF Dealer(g) = NoPlayer THEN [g EXCEPT !.Err = "ErrNoDealer"]
    ELSE IF \E i \in Seats(g) : g.Players[i].Bankroll <= 0
    THEN [g EXCEPT !.Err = "ErrNotEnoughBackroll"]
    ELSE LET g1 == [g EXCEPT !.Status.Pots = <<>>,
                             !.Status.Board = <<>>,
                             !.Status.Burned = <<>>,
                             !.Status.CurrentEvent = ""]
         IN  Initialize(EmitEvent(g1, "Started"), deck)

\* Start checks the options, clears the table and emits Started, whose
\* handler initializes the hand with the shuffled deck
Start(g, deck) ==
    IF GetPlayerCount(g) < 2 THEN [g EXCEPT !.Err = "ErrInsufficientNumberOfPlayers"]
    ELSE IF Dealer(g) = NoPlayer THEN [g EXCEPT !.Err = "ErrNoDealer"]
    ELSE IF \E i \in Seats(g) : g.Players[i].Bankroll <= 0
    THEN [g EXCEPT !.Err = "ErrNotEnoughBackroll"]
    ELSE IF Len(g.Meta.Deck) = 0 THEN [g EXCEPT !.Err = "ErrNoDeck"]
    ELSE LET g1 == [g EXCEPT !.Status.Pots = <<>>,
                             !.Status.Board = <<>>,
                             !.Status.Burned = <<>>,
                             !.Status.CurrentEvent = ""]
         IN  Initialize(EmitEvent(g1, "Started"), deck)

\* Next recording the call and leaving the round where it is
Next_OnlyLastAction(g) == UpdateLastAction(g, -1, "next", 0)

Next(g) ==
    LET g1 == UpdateLastAction(g, -1, "next", 0)
    IN  IF g1.Status.Round \in SeqToSet(Rounds) THEN nextRound(g1) ELSE g1

\* the barrier: before the hand has a round it leads to the ante or to
\* preflop, afterwards it starts the round that was prepared
ReadyForAll(g) ==
    IF g.Status.CurrentEvent # "ReadyRequested" THEN [g EXCEPT !.Err = "ErrIllegalAction"]
    ELSE IF g.Status.Round = ""
    THEN (IF g.Meta.Ante > 0 THEN RequestAnte(g) ELSE EnterPreflopRound(g))
    ELSE EmitEvent(g, "RoundPrepared")

RECURSIVE PayAll(_, _, _)
PayAll(g, order, chips) ==
    IF order = <<>> THEN g
    ELSE LET p == Head(order)
             c == Min(chips, g.Players[p].StackSize)
         IN  PayAll(UpdateLastAction(Pay(g, p, chips), p, "ante", c), Tail(order), chips)

\* every seat pays the ante, as far as its stack goes
PayAnte(g) ==
    IF g.Status.CurrentEvent # "AnteRequested" THEN [g EXCEPT !.Err = "ErrIllegalAction"]
    ELSE EmitEvent(PayAll(g, GetPlayers(g), g.Meta.Ante), "AntePaid")

PayBlind(g, p, chips) == IF p = NoPlayer \/ chips <= 0 THEN g ELSE Pay(g, p, chips)


\* PayBlinds collecting the blinds without setting the wager to match
PayBlinds_NoTarget(g) ==
    IF g.Status.CurrentEvent # "BlindsRequested" THEN [g EXCEPT !.Err = "ErrIllegalAction"]
    ELSE LET b == g.Meta.Blind
             g1 == PayBlind(g, Dealer(g), b.Dealer)
             g2 == PayBlind(g1, SmallBlind(g), b.SB)
             g3 == PayBlind(g2, BigBlind(g), b.BB)
         IN  EmitEvent(g3, "BlindsPaid")

\* the dealer, the small blind and the big blind post what is configured,
\* as far as their stacks go; the wager to match is the largest blind
PayBlinds(g) ==
    IF g.Status.CurrentEvent # "BlindsRequested" THEN [g EXCEPT !.Err = "ErrIllegalAction"]
    ELSE LET b == g.Meta.Blind
             g1 == PayBlind(g, Dealer(g), b.Dealer)
             g2 == PayBlind(g1, SmallBlind(g), b.SB)
             g3 == PayBlind(g2, BigBlind(g), b.BB)
         IN  EmitEvent([g3 EXCEPT !.Status.CurrentWager = Max(b.Dealer, b.BB),
                                  !.Status.MaxWager = Max(b.Dealer, b.BB)],
                       "BlindsPaid")

\* a betting call: the current player's method, then the next turn
PlayerAction(g, g1) == IF g1.Err # ErrNil THEN g1 ELSE RequestPlayerAction(g1)

NoActor(g) == GetCurrentPlayer(g) = NoPlayer

Pass(g) ==
    IF NoActor(g) THEN [g EXCEPT !.Err = "ErrIllegalAction"]
    ELSE PlayerAction(g, PlayerPass(g, GetCurrentPlayer(g)))

Fold(g) ==
    IF NoActor(g) THEN [g EXCEPT !.Err = "ErrIllegalAction"]
    ELSE PlayerAction(g, PlayerFold(g, GetCurrentPlayer(g)))

Check(g) ==
    IF NoActor(g) THEN [g EXCEPT !.Err = "ErrIllegalAction"]
    ELSE PlayerAction(g, PlayerCheck(g, GetCurrentPlayer(g)))

Call(g) ==
    IF NoActor(g) THEN [g EXCEPT !.Err = "ErrIllegalAction"]
    ELSE PlayerAction(g, PlayerCall(g, GetCurrentPlayer(g)))

Allin(g) ==
    IF NoActor(g) THEN [g EXCEPT !.Err = "ErrIllegalAction"]
    ELSE PlayerAction(g, PlayerAllin(g, GetCurrentPlayer(g)))

Bet(g, chips) ==
    IF NoActor(g) THEN [g EXCEPT !.Err = "ErrIllegalAction"]
    ELSE PlayerAction(g, PlayerBet(g, GetCurrentPlayer(g), chips))

Raise(g, chipLevel) ==
    IF NoActor(g) THEN [g EXCEPT !.Err = "ErrIllegalAction"]
    ELSE PlayerAction(g, PlayerRaise(g, GetCurrentPlayer(g), chipLevel))


(***************************************************************************)
(* Snapshots.  GetState hands out the GameState of a game; JSON writes a   *)
(* slice as an array (here a sequence from 1) in the order of the slice,   *)
(* a nil pointer as null (here the empty sequence) and every other field   *)
(* under its name; reading builds the slices again from the arrays.        *)
(***************************************************************************)
GetState(g) ==
    [Meta |-> g.Meta, Status |-> g.Status, Players |-> g.Players, Result |-> g.Result]

\* the position names in the order a table assigns them
PositionOrder == <<"dealer", "sb", "bb">>

\* a set of seat indexes as the ascending slice it stands for
RECURSIVE Ascending(_)
Ascending(S) ==
    IF S = {} THEN <<>>
    ELSE LET least == CHOOSE x \in S : \A y \in S : x <= y
         IN  <<least>> \o Ascending(S \ {least})

\* a slice indexed from 0 as a JSON array, and back
ToArray(f) == [k \in 1..Cardinality(DOMAIN f) |-> f[k - 1]]

FromArray(a) == [i \in 0..(Len(a) - 1) |-> a[i + 1]]

MarshalPlayer(ps) ==
    [ idx |-> ps.Idx,
      positions |-> SelectSeq(PositionOrder, LAMBDA pos : pos \in ps.Positions),
      bankroll |-> ps.Bankroll,
      initialStackSize |-> ps.InitialStackSize,
      stackSize |-> ps.StackSize,
      wager |-> ps.Wager,
      pot |-> ps.Pot,
      fold |-> ps.Fold,
      acted |-> ps.Acted,
      vpip |-> ps.VPIP,
      didAction |-> ps.DidAction,
      allowedActions |-> ps.AllowedActions,
      holeCards |-> ps.HoleCards,
      combination |-> [power |-> ps.Combination.Power] ]

UnmarshalPlayer(d) ==
    [ Idx |-> d.idx,
      Positions |-> SeqToSet(d.positions),
      Bankroll |-> d.bankroll,
      InitialStackSize |-> d.initialStackSize,
      StackSize |-> d.stackSize,
      Wager |-> d.wager,
      Pot |-> d.pot,
      Fold |-> d.fold,
      Acted |-> d.acted,
      VPIP |-> d.vpip,
      DidAction |-> d.didAction,
      AllowedActions |-> d.allowedActions,
      HoleCards |-> d.holeCards,
      Combination |-> [Power |-> d.combination.power] ]

MarshalPot(pot) ==
    [ level |-> pot.Level,
      total |-> pot.Total,
      contributors |-> Ascending(pot.Contributors),
      winners |-> Ascending(pot.Winners) ]

UnmarshalPot(d) ==
    [ Level |-> d.level,
      Total |-> d.total,
      Contributors |-> SeqToSet(d.contributors),
      Winners |-> SeqToSet(d.winners) ]

MarshalStatus(st) ==
    [ round |-> st.Round,
      currentEvent |-> st.CurrentEvent,
      board |-> st.Board,
      burned |-> st.Burned,
      currentDeckPosition |-> st.CurrentDeckPosition,
      miniBet |-> st.MiniBet,
      previousRaiseSize |-> st.PreviousRaiseSize,
      maxWager |-> st.MaxWager,
      currentWager |-> st.CurrentWager,
      currentRoundPot |-> st.CurrentRoundPot,
      currentPlayer |-> st.CurrentPlayer,
      currentRaiser |-> st.CurrentRaiser,
      lastAction |-> [k \in DOMAIN st.LastAction |->
                        [ source |-> st.LastAction[k].Source,
                          type |-> st.LastAction[k].Type,
                          value |-> st.LastAction[k].Value ]],
      pots |-> [k \in DOMAIN st.Pots |-> MarshalPot(st.Pots[k])] ]

\* Unmarshal reading the status without the deck position: the field keeps
\* the zero value of a new GameState
UnmarshalStatus_NoDeckPosition(d) ==
    [ Round |-> d.round,
      CurrentEvent |-> d.currentEvent,
      Board |-> d.board,
      Burned |-> d.burned,
      CurrentDeckPosition |-> 0,
      MiniBet |-> d.miniBet,
      PreviousRaiseSize |-> d.previousRaiseSize,
      MaxWager |-> d.maxWager,
      CurrentWager |-> d.currentWager,
      CurrentRoundPot |-> d.currentRoundPot,
      CurrentPlayer |-> d.currentPlayer,
      CurrentRaiser |-> d.currentRaiser,
      LastAction |-> [k \in DOMAIN d.lastAction |->
                        [ Source |-> d.lastAction[k].source,
                          Type |-> d.lastAction[k].type,
                          Value |-> d.lastAction[k].value ]],
      Pots |-> [k \in DOMAIN d.pots |-> UnmarshalPot(d.pots[k])] ]

UnmarshalStatus(d) ==
    [ Round |-> d.round,
      CurrentEvent |-> d.currentEvent,
      Board |-> d.board,
      Burned |-> d.burned,
      CurrentDeckPosition |-> d.currentDeckPosition,
      MiniBet |-> d.miniBet,
      PreviousRaiseSize |-> d.previousRaiseSize,
      MaxWager |-> d.maxWager,
      CurrentWager |-> d.currentWager,
      CurrentRoundPot |-> d.currentRoundPot,
      CurrentPlayer |-> d.currentPlayer,
      CurrentRaiser |-> d.currentRaiser,
      LastAction |-> [k \in DOMAIN d.lastAction |->
                        [ Source |-> d.lastAction[k].source,
                          Type |-> d.lastAction[k].type,
                          Value |-> d.lastAction[k].value ]],
      Pots |-> [k \in DOMAIN d.pots |-> UnmarshalPot(d.pots[k])] ]

MarshalResult(res) ==
    [k \in DOMAIN res |->
        [ players |-> ToArray([i \in DOMAIN res[k].Players |->
                                 [ idx |-> res[k].Players[i].Idx,
                                   final |-> res[k].Players[i].Final,
                                   changed |-> res[k].Players[i].Changed ]]) ]]

UnmarshalResult(d) ==
    [k \in DOMAIN d |->
        [ Players |-> FromArray([j \in DOMAIN d[k].players |->
                                   [ Idx |-> d[k].players[j].idx,
                                     Final |-> d[k].players[j].final,
                                     Changed |-> d[k].players[j].changed ]]) ]]

\* json.Marshal of a GameState
Marshal(gs) ==
    [ meta |-> [ ante |-> gs.Meta.Ante,
                 blind |-> [ dealer |-> gs.Meta.Blind.Dealer,
                             sb |-> gs.Meta.Blind.SB,
                             bb |-> gs.Meta.Blind.BB ],
                 holeCardsCount |-> gs.Meta.HoleCardsCount,
                 deck |-> gs.Meta.Deck ],
      status |-> MarshalStatus(gs.Status),
      players |-> ToArray([i \in DOMAIN gs.Players |-> MarshalPlayer(gs.Players[i])]),
      result |-> MarshalResult(gs.Result) ]

\* json.Unmarshal into a new GameState
Unmarshal(data) ==
    [ Meta |-> [ Ante |-> data.meta.ante,
                 Blind |-> [ Dealer |-> data.meta.blind.dealer,
                             SB |-> data.meta.blind.sb,
                             BB |-> data.meta.blind.bb ],
                 HoleCardsCount |-> data.meta.holeCardsCount,
                 Deck |-> data.meta.deck ],
      Status |-> UnmarshalStatus(data.status),
      Players |-> FromArray([k \in DOMAIN data.players |-> UnmarshalPlayer(data.players[k])]),
      Result |-> UnmarshalResult(data.result) ]

\* NativeBackend's copy of a state: through JSON and back
cloneState(gs) == Unmarshal(Marshal(gs))

\* LoadState installs the state; the dealer and the blind seats are found
\* again from the positions of its players (Dealer, SmallBlind, BigBlind)
LoadState(g, gs) ==
    [g EXCEPT !.Meta = gs.Meta,
              !.Status = gs.Status,
              !.Players = gs.Players,
              !.Result = gs.Result]

NewGameFromState(gs) ==
    LoadState([ Meta |-> <<>>, Status |-> <<>>, Players |-> <<>>, Result |-> <<>>,
                Err |-> ErrNil, Events |-> <<>> ], gs)

\* Resume emits the event the state names, if it names one
Resume(g) ==
    IF g.Status.CurrentEvent # "" THEN EmitEvent(g, g.Status.CurrentEvent)
    ELSE g

(***************************************************************************)
(* The state machine.                                                      *)
(***************************************************************************)
VARIABLES
    meta,      \* GameState.Meta
    status,    \* GameState.Status
    players,   \* GameState.Players
    result,    \* GameState.Result (<<>> while nil)
    err,       \* the error returned by the last call
    events,    \* the events emitted by the last call, in order
    turns,     \* the seats that took a betting action since the round started
    earlyNext  \* how many times Next was called while no round was closed

vars == <<meta, status, players, result, err, events, turns, earlyNext>>

\* the game value of the current state, ready for a call
G ==
    [ Meta |-> meta, Status |-> status, Players |-> players, Result |-> result,
      Err |-> ErrNil, Events |-> <<>> ]

Return(g) ==
    /\ meta' = g.Meta
    /\ status' = g.Status
    /\ players' = g.Players
    /\ result' = g.Result
    /\ err' = g.Err
    /\ events' = g.Events

Init ==
    \E opts \in AllOptions :
        /\ meta = NewGame(opts).Meta
        /\ status = NewGame(opts).Status
        /\ players = NewGame(opts).Players
        /\ result = NewGame(opts).Result
        /\ err = ErrNil
        /\ events = <<>>
        /\ turns = {}
        /\ earlyNext = 0

\* a driver starts a hand once, on a fresh game
DoStart ==
    /\ status.CurrentEvent = ""
    /\ \E deck \in ShuffleCards(meta.Deck) : Return(Start(G, deck))
    /\ turns' = {}
    /\ UNCHANGED earlyNext

DoReadyForAll ==
    /\ Return(ReadyForAll(G))
    /\ turns' = IF err' = ErrNil THEN {} ELSE turns
    /\ UNCHANGED earlyNext

DoPayAnte ==
    /\ Return(PayAnte(G))
    /\ UNCHANGED <<turns, earlyNext>>

DoPayBlinds ==
    /\ Return(PayBlinds(G))
    /\ UNCHANGED <<turns, earlyNext>>

\* Next has no guard in the code; a driver calls it when a round has closed,
\* and at most MaxEarlyNext times at any other moment
DoNext ==
    /\ status.CurrentEvent = "RoundClosed" \/ earlyNext < MaxEarlyNext
    /\ Return(Next(G))
    /\ turns' = IF status'.Round # status.Round THEN {} ELSE turns
    /\ earlyNext' = IF status.CurrentEvent = "RoundClosed" THEN earlyNext
                    ELSE earlyNext + 1

\* a betting call of the driver; the actor is the current player
Betting(g) ==
    /\ Return(g)
    /\ turns' = IF g.Err = ErrNil THEN turns \cup {status.CurrentPlayer} ELSE turns
    /\ UNCHANGED earlyNext

DoPass == Betting(Pass(G))

DoFold == Betting(Fold(G))

DoCheck == Betting(Check(G))

DoCall == Betting(Call(G))

DoAllin == Betting(Allin(G))

DoBet == \E chips \in BetChoices : Betting(Bet(G, chips))

DoRaise == \E chipLevel \in RaiseChoices : Betting(Raise(G, chipLevel))

Next_ ==
    \/ DoStart
    \/ DoReadyForAll
    \/ DoPayAnte
    \/ DoPayBlinds
    \/ DoNext
    \/ DoPass
    \/ DoFold
    \/ DoCheck
    \/ DoCall
    \/ DoAllin
    \/ DoBet
    \/ DoRaise

Spec == Init /\ [][Next_]_vars

(***************************************************************************)
(* Properties.                                                             *)
(***************************************************************************)
TotalBankroll ==
    SumOver([i \in DOMAIN players |-> players[i].Bankroll], DOMAIN players)

\* the chips the seats hold: stacks, wagers of the round, pots of the hand
ChipsOfPlayers ==
    SumOver([i \in DOMAIN players |->
                players[i].StackSize + players[i].Wager + players[i].Pot],
            DOMAIN players)

LayerTotals == SumSeq([k \in 1..Len(status.Pots) |-> status.Pots[k].Total])

\* C1 (amended): in every state the stacks, wagers and pots of the players
\* sum to the bankrolls they brought; the pot layers are a view of the same
\* chips and are not added.
C1_ChipConservation == ChipsOfPlayers = TotalBankroll

\* C1 as stated: after every accepted operation the chips of the players
\* plus the totals of the pot layers equal the bankrolls (here only on hands
\* whose driver calls Next on closed rounds alone).
C1_ConservationWithLayers ==
    err = ErrNil /\ earlyNext = 0 => ChipsOfPlayers + LayerTotals = TotalBankroll

\* a settled hand with a side pot
C1_Witness ==
    /\ err = ErrNil
    /\ result # <<>>
    /\ Len(status.Pots) > 1
    /\ LayerTotals > 0

\* the betting calls a driver can make in the current state, each with the
\* game it returns
BettingCalls ==
    { <<"pass", Pass(G)>>, <<"fold", Fold(G)>>, <<"check", Check(G)>>,
      <<"call", Call(G)>>, <<"allin", Allin(G)>> }
        \cup { <<"bet", Bet(G, chips)>> : chips \in BetChoices }
        \cup { <<"raise", Raise(G, chipLevel)>> : chipLevel \in RaiseChoices }

\* the allowed-actions list of the current player at this moment
AllowedNow ==
    IF NoActor(G) THEN {}
    ELSE SeqToSet(players[status.CurrentPlayer].AllowedActions)

\* the call returned g and left the whole game as it was
SameGame(g) ==
    /\ g.Meta = meta
    /\ g.Status = status
    /\ g.Players = players
    /\ g.Result = result

\* C2: a betting call succeeds only if its name is in the current player's
\* allowed actions at the moment of the call; every other call returns an
\* error and changes nothing of the game.
C2_Legality ==
    \A c \in BettingCalls :
        /\ c[2].Err = ErrNil => c[1] \in AllowedNow
        /\ c[1] \notin AllowedNow => c[2].Err # ErrNil /\ SameGame(c[2])

\* a call was refused while a player had the turn and a choice of actions
C2_Witness ==
    /\ err = "ErrIllegalAction"
    /\ Cardinality(AllowedNow) > 1

\* the allowed set of the table in the claim, from the fields of player p
TableOfAllowed(p) ==
    LET ps == players[p]
    IN  IF ps.Fold \/ ps.StackSize = 0 THEN {"pass"}
        ELSE {"allin"} \cup
             (IF ps.Wager < status.CurrentWager
              THEN {"fold"}
                    \cup {"call" : x \in {y \in {0} :
                            ps.InitialStackSize > status.CurrentWager}}
                    \cup {"raise" : x \in {y \in {0} :
                            ps.InitialStackSize >
                                status.CurrentWager + status.PreviousRaiseSize}}
              ELSE {"check"}
                    \cup {"bet" : x \in {y \in {0} :
                            ps.InitialStackSize >= status.MiniBet
                                /\ status.CurrentWager = 0}}
                    \cup {"raise" : x \in {y \in {0} :
                            ps.InitialStackSize >= status.MiniBet
                                /\ status.CurrentWager > 0}})

\* the scenario of the claim: a wager of 10 to match after a raise of 10,
\* the player to act holds 15 and has nothing in the round yet
RaiseScenario ==
    /\ ~NoActor(G)
    /\ AllowedNow # {}
    /\ status.CurrentWager = 10
    /\ status.PreviousRaiseSize = 10
    /\ ~players[status.CurrentPlayer].Fold
    /\ players[status.CurrentPlayer].StackSize = 15
    /\ players[status.CurrentPlayer].InitialStackSize = 15
    /\ players[status.CurrentPlayer].Wager = 0

\* C5: the allowed actions of the player who has the turn are exactly the
\* set of the table; in the scenario the set is {fold, call, allin},
\* Raise(20) fails and Call succeeds and leaves a wager of 10.
C5_AllowedActionTable ==
    /\ AllowedNow # {} => AllowedNow = TableOfAllowed(status.CurrentPlayer)
    /\ RaiseScenario =>
        /\ AllowedNow = {"fold", "call", "allin"}
        /\ Raise(G, 20).Err # ErrNil
        /\ Call(G).Err = ErrNil
        /\ Call(G).Players[status.CurrentPlayer].Wager = 10

\* the scenario on a hand whose driver kept to the protocol
C5_Witness == RaiseScenario /\ earlyNext = 0

\* the error Start owes to the options of the game, ErrNil when they are good
StartError ==
    IF Cardinality(DOMAIN players) < 2 THEN "ErrInsufficientNumberOfPlayers"
    ELSE IF \A i \in DOMAIN players : "dealer" \notin players[i].Positions
    THEN "ErrNoDealer"
    ELSE IF \E i \in DOMAIN players : players[i].Bankroll <= 0
    THEN "ErrNotEnoughBackroll"
    ELSE IF meta.Deck = <<>> THEN "ErrNoDeck"
    ELSE ErrNil

\* C6: Start returns the first of InsufficientNumberOfPlayers, NoDealer,
\* NotEnoughBankroll, NoDeck that applies; a failing Start emits no event
\* and leaves pots, board, burned and currentEvent as they were.
C6_StartRejects ==
    status.CurrentEvent = "" =>
        \A deck \in ShuffleCards(meta.Deck) :
            LET g == Start(G, deck)
            IN  /\ g.Err = StartError
                /\ StartError # ErrNil =>
                    /\ g.Events = <<>>
                    /\ g.Status.Pots = status.Pots
                    /\ g.Status.Board = status.Board
                    /\ g.Status.Burned = status.Burned
                    /\ g.Status.CurrentEvent = status.CurrentEvent

\* Start has refused a table of two seats that has a dealer, a seat without
\* chips and no deck
C6_Witness ==
    /\ err = "ErrNotEnoughBackroll"
    /\ meta.Deck = <<>>
    /\ events = <<>>
    /\ status.CurrentEvent = ""

\* what seat i receives from the pot layers of the state, by their winners
AwardFromLayers(i) ==
    SumSeq([k \in 1..Len(status.Pots) |->
        LET pot == status.Pots[k]
        IN  IF i \notin pot.Winners THEN 0
            ELSE (pot.Total \div Cardinality(pot.Winners))
                    + (IF i = FirstFromDealer(G, pot.Winners)
                       THEN pot.Total % Cardinality(pot.Winners) ELSE 0)])

\* C3: once the hand is settled, the Changed of every player is what the
\* pot layers award to the player minus what the player put into the hand,
\* and the Changed of all players sum to 0.
C3_SettlementZeroSum ==
    result # <<>> =>
        /\ \A i \in DOMAIN players :
              result[1].Players[i].Changed = AwardFromLayers(i) - Committed(G, i)
        /\ SumOver([i \in DOMAIN players |-> result[1].Players[i].Changed],
                   DOMAIN players) = 0

\* a settled hand with a fold, a side pot and a layer split between two
\* tied hands
C3_Witness ==
    /\ result # <<>>
    /\ earlyNext = 0
    /\ Len(status.Pots) > 1
    /\ \E i \in DOMAIN players : players[i].Fold /\ Committed(G, i) > 0
    /\ \E k \in 1..Len(status.Pots) : Cardinality(status.Pots[k].Winners) > 1

\* the seats that can still move: not folded, chips left
MovableSeats == {i \in DOMAIN players : ~players[i].Fold /\ players[i].StackSize > 0}

AliveSeats == {i \in DOMAIN players : ~players[i].Fold}

\* C4: when a betting action closes the round with at least two players
\* alive and at least two able to move, every player who is not folded and
\* not all-in has taken an action in the round.
C4_TurnFairness ==
    /\ err = ErrNil
    /\ events = <<"RoundClosed">>
    /\ Cardinality(AliveSeats) > 1
    /\ Cardinality(MovableSeats) > 1
    => MovableSeats \subseteq turns

\* a round of three movable players closed after each of them acted
C4_Witness ==
    /\ err = ErrNil
    /\ events = <<"RoundClosed">>
    /\ Cardinality(MovableSeats) > 2
    /\ MovableSeats \subseteq turns

\* the actions the player who has the turn can try, each with the game
\* right after the action (Mid), before the next actor is requested
PlayerCalls ==
    IF NoActor(G) THEN {}
    ELSE LET p == GetCurrentPlayer(G)
         IN  { [Name |-> "pass", Mid |-> PlayerPass(G, p)],
               [Name |-> "fold", Mid |-> PlayerFold(G, p)],
               [Name |-> "check", Mid |-> PlayerCheck(G, p)],
               [Name |-> "call", Mid |-> PlayerCall(G, p)],
               [Name |-> "allin", Mid |-> PlayerAllin(G, p)] }
                \cup { [Name |-> "bet", Mid |-> PlayerBet(G, p, chips)] :
                        chips \in BetChoices }
                \cup { [Name |-> "raise", Mid |-> PlayerRaise(G, p, chipLevel)] :
                        chipLevel \in RaiseChoices }

\* the closure rule, on the game right after an action
ClosesRound(g) ==
    \/ GetAlivePlayerCount(g) = 1
    \/ GetMovablePlayerCount(g) = 0
    \/ g.Players[(g.Status.CurrentPlayer + 1) % GetPlayerCount(g)].Acted

\* C7: after a player action RoundClosed fires if one player is alive, or
\* nobody can move, or the next seat in turn order has acted; otherwise no
\* RoundClosed fires and the next seat becomes the current player with its
\* allowed actions computed anew.
C7_RoundClosure ==
    \A c \in PlayerCalls :
        c.Mid.Err = ErrNil =>
            LET after == PlayerAction(G, c.Mid)
                next == (status.CurrentPlayer + 1) % Cardinality(DOMAIN players)
            IN  IF ClosesRound(c.Mid)
                THEN "RoundClosed" \in SeqToSet(after.Events)
                ELSE /\ "RoundClosed" \notin SeqToSet(after.Events)
                     /\ after.Status.CurrentPlayer = next
                     /\ after.Players[next].AllowedActions # <<>>
                     /\ after.Players[next].AllowedActions =
                            GetAvailableActions(after, next)

\* a check has closed a round in which two players can still move
C7_Witness ==
    /\ err = ErrNil
    /\ events = <<"RoundClosed">>
    /\ status.CurrentPlayer = NoPlayer
    /\ Cardinality(MovableSeats) > 1
    /\ status.LastAction # <<>>
    /\ status.LastAction[1].Type = "check"

\* C8: right after a legal bet or raise of seat r the current raiser is r,
\* r has acted and nobody else has, the current wager is the wager of r and
\* the previous raise size is that wager minus the current wager before.
C8_BecomingRaiser ==
    \A c \in PlayerCalls :
        c.Name \in {"bet", "raise"} /\ c.Mid.Err = ErrNil =>
            LET r == status.CurrentPlayer
                m == c.Mid
            IN  /\ m.Status.CurrentRaiser = r
                /\ m.Players[r].Acted
                /\ \A i \in DOMAIN players : i # r => ~m.Players[i].Acted
                /\ m.Status.CurrentWager = m.Players[r].Wager
                /\ m.Status.PreviousRaiseSize = m.Players[r].Wager - status.CurrentWager

\* a raise over a bet has just been accepted and the round goes on
C8_Witness ==
    /\ err = ErrNil
    /\ events = <<>>
    /\ status.LastAction # <<>>
    /\ status.LastAction[1].Type = "raise"
    /\ status.CurrentRaiser = status.LastAction[1].Source
    /\ status.PreviousRaiseSize > 0
    /\ status.PreviousRaiseSize < status.CurrentWager
    /\ players[status.CurrentRaiser].Acted

\* the first seat clockwise after seat s that is not folded and has chips
FirstLiveAfter(s) ==
    LET n == Cardinality(DOMAIN players)
        d == CHOOSE k \in 1..n :
                /\ ((s + k) % n) \in MovableSeats
                /\ \A j \in 1..(k - 1) : ((s + j) % n) \notin MovableSeats
    IN  (s + d) % n

\* C9 as stated: the next player computed from the seat that has the turn
\* is the first seat clockwise after it that is not folded and has chips.
C9_SkipsDeadSeats ==
    /\ earlyNext = 0
    /\ AllowedNow # {}
    /\ MovableSeats # {}
    => NextPlayer(G) = FirstLiveAfter(status.CurrentPlayer)

\* C10: when the preflop betting starts the player to act is the seat right
\* after the big blind, and the current raiser is the dealer.
C10_PreflopOpener ==
    /\ err = ErrNil
    /\ status.Round = "preflop"
    /\ "RoundStarted" \in SeqToSet(events)
    => /\ status.CurrentPlayer = (BigBlind(G) + 1) % Cardinality(DOMAIN players)
       /\ status.CurrentRaiser = Dealer(G)

\* the preflop betting of a table of three seats has started, the button is
\* at the last seat and the dealer is to act
C10_Witness ==
    /\ err = ErrNil
    /\ status.Round = "preflop"
    /\ "RoundStarted" \in SeqToSet(events)
    /\ Cardinality(DOMAIN players) = 3
    /\ Dealer(G) = 2
    /\ status.CurrentPlayer = 2
    /\ players[2].AllowedActions # <<>>

\* the last call was the ReadyForAll that starts a flop, turn or river round
PostflopOpened ==
    /\ err = ErrNil
    /\ status.Round \in {"flop", "turn", "river"}
    /\ events # <<>>
    /\ events[1] = "RoundPrepared"

\* the seat immediately clockwise of the dealer
SeatAfterDealer == (Dealer(G) + 1) % GetPlayerCount(G)

\* C11: when ReadyForAll has started a flop, turn or river round the current
\* player is the seat immediately clockwise of the dealer (the sb seat of a
\* table of three or more); if that seat has folded or has no chips its
\* allowed actions are exactly pass, and Pass gives the turn to the seat
\* after it.
C11_PostflopOpener ==
    PostflopOpened =>
        /\ status.CurrentEvent = "RoundStarted"
        /\ status.CurrentPlayer = SeatAfterDealer
        /\ GetPlayerCount(G) >= 3 => CheckPosition(G, SeatAfterDealer, "sb")
        /\ players[SeatAfterDealer].Fold \/ players[SeatAfterDealer].StackSize = 0 =>
              /\ players[SeatAfterDealer].AllowedActions = <<"pass">>
              /\ Pass(G).Err = ErrNil
              /\ Pass(G).Status.CurrentPlayer = (SeatAfterDealer + 1) % GetPlayerCount(G)

\* a turn round opens at a folded seat after the dealer
C11_Witness ==
    /\ PostflopOpened
    /\ status.Round = "turn"
    /\ status.CurrentPlayer = SeatAfterDealer
    /\ players[SeatAfterDealer].Fold

\* a postflop round opens at a seat after the dealer that is all-in
C11_WitnessAllin ==
    /\ PostflopOpened
    /\ status.CurrentPlayer = SeatAfterDealer
    /\ ~players[SeatAfterDealer].Fold
    /\ players[SeatAfterDealer].StackSize = 0

\* C12: Next on a closed round returns a game whose previousRaiseSize,
\* currentWager, maxWager and currentRoundPot are 0 and whose currentRaiser
\* is the dealer; every player's wager has moved to its pot, its wager is 0
\* and its initialStackSize is its stackSize, while stackSize, the fold flag
\* and the hole cards are those of before the call.
C12_RoundAdvancement ==
    status.CurrentEvent = "RoundClosed" =>
        LET g == Next(G)
        IN  /\ g.Err = ErrNil
            /\ g.Status.PreviousRaiseSize = 0
            /\ g.Status.CurrentWager = 0
            /\ g.Status.MaxWager = 0
            /\ g.Status.CurrentRoundPot = 0
            /\ g.Status.CurrentRaiser = Dealer(G)
            /\ \A i \in DOMAIN players :
                  /\ g.Players[i].Pot = players[i].Pot + players[i].Wager
                  /\ g.Players[i].Wager = 0
                  /\ g.Players[i].InitialStackSize = players[i].StackSize
                  /\ g.Players[i].StackSize = players[i].StackSize
                  /\ g.Players[i].Fold = players[i].Fold
                  /\ g.Players[i].HoleCards = players[i].HoleCards

\* a round closed after a raise, with a folded seat and unequal wagers;
\* Next leads to another street
C12_Witness ==
    /\ status.CurrentEvent = "RoundClosed"
    /\ status.CurrentWager > 0
    /\ status.PreviousRaiseSize > 0
    /\ status.CurrentRaiser # Dealer(G)
    /\ \E i \in DOMAIN players : players[i].Fold /\ players[i].Wager > 0
    /\ \E i \in DOMAIN players : players[i].InitialStackSize # players[i].StackSize
    /\ Next(G).Status.Round # status.Round

\* the streets in order, and the cards each brings to the board
StreetAfter == [r \in {"", "preflop", "flop", "turn"} |->
                  CASE r = "" -> "preflop" [] r = "preflop" -> "flop"
                    [] r = "flop" -> "turn" [] OTHER -> "river"]

BoardCardsOf == [r \in {"preflop", "flop", "turn", "river"} |->
                   CASE r = "flop" -> 3 [] r \in {"turn", "river"} -> 1 [] OTHER -> 0]

BoardSizeIn == [r \in {"", "preflop", "flop", "turn", "river"} |->
                  CASE r = "flop" -> 3 [] r = "turn" -> 4 [] r = "river" -> 5 [] OTHER -> 0]

BurnedSizeIn == [r \in {"", "preflop", "flop", "turn", "river"} |->
                   CASE r = "flop" -> 1 [] r = "turn" -> 2 [] r = "river" -> 3 [] OTHER -> 0]

\* the board and the burned pile have the size of the street
StreetCards ==
    /\ Len(status.Board) = BoardSizeIn[status.Round]
    /\ Len(status.Burned) = BurnedSizeIn[status.Round]

\* a step that changes the round label enters the following street, burns
\* one card and deals that street's board cards from the deck
StreetStep ==
    status'.Round # status.Round =>
        /\ status.Round # "river"
        /\ status'.Round = StreetAfter[status.Round]
        /\ status.Round # "" =>
              /\ Len(status'.Burned) = Len(status.Burned) + 1
              /\ Len(status'.Board) = Len(status.Board) + BoardCardsOf[status'.Round]
              /\ status'.CurrentDeckPosition =
                    status.CurrentDeckPosition + 1 + BoardCardsOf[status'.Round]

\* C13: the round label only moves preflop -> flop -> turn -> river, one
\* street at a time; each move burns one card and deals 3 board cards for
\* the flop and 1 for turn and river; in every state the board has 0, 3, 4,
\* 5 cards and the burned pile 0, 1, 2, 3 cards in preflop, flop, turn,
\* river.
C13_StreetProgression == [][StreetStep]_vars /\ []StreetCards

\* the river is on the table
C13_Witness ==
    /\ status.Round = "river"
    /\ Len(status.Board) = 5
    /\ Len(status.Burned) = 3
    /\ earlyNext = 0

\* C14: when exactly one player is alive and Next is called in any street,
\* GameCompleted is the first event of the call; the round label, the
\* board, the burned pile and the deck cursor keep their values.
C14_Walkover ==
    GetAlivePlayerCount(G) = 1 /\ status.Round \in SeqToSet(Rounds) =>
        LET g == Next(G)
        IN  /\ g.Err = ErrNil
            /\ g.Events # <<>>
            /\ g.Events[1] = "GameCompleted"
            /\ g.Status.Round = status.Round
            /\ g.Status.Board = status.Board
            /\ g.Status.Burned = status.Burned
            /\ g.Status.CurrentDeckPosition = status.CurrentDeckPosition

\* every seat but one has folded before the flop and the round has closed
C14_Witness ==
    /\ GetAlivePlayerCount(G) = 1
    /\ GetPlayerCount(G) = 3
    /\ status.Round = "preflop"
    /\ status.CurrentEvent = "RoundClosed"
    /\ result = <<>>
    /\ Next(G).Result # <<>>

\* the betting calls that succeed and close the round
ClosingCalls ==
    { c \in BettingCalls :
        c[2].Err = ErrNil /\ "RoundClosed" \in SeqToSet(c[2].Events) }

\* the hand is settled and closed
Settled(g) ==
    /\ g.Status.CurrentEvent \in {"GameClosed", "SettlementCompleted"}
    /\ g.Result # <<>>

LayersNow == UpdatePots(G).Status.Pots

\* the contribution amount layer k reaches: the levels up to k, added
ReachOf(pots, k) == SumSeq([j \in 1..k |-> pots[j].Level])

\* the players whose contribution reaches amount c
Reaching(c) == {i \in DOMAIN players : Committed(G, i) >= c}

Folded == {i \in DOMAIN players : players[i].Fold}

\* the four-seat hand of the example: contributions 100, 100, 40, 100
ExampleContributions == <<100, 100, 40, 100>>

ExampleGame ==
    LET g == NewGame([Ante |-> 0, Blind |-> StandardBlind,
                      Deck |-> NewStandardDeckCards,
                      HoleCardsCount |-> HoleCardsCount,
                      Players |-> [i \in 0..3 |->
                                     [Positions |-> PositionsOf(4, 0, i),
                                      Bankroll |-> ExampleContributions[1]]]])
    IN  [g EXCEPT !.Players =
            [i \in 0..3 |->
                [g.Players[i] EXCEPT
                    !.Pot = ExampleContributions[i + 1],
                    !.StackSize = @ - ExampleContributions[i + 1]]]]

ExampleLayers ==
    << [Level |-> 40, Total |-> 160, Contributors |-> {0, 1, 2, 3}, Winners |-> {}],
       [Level |-> 60, Total |-> 180, Contributors |-> {0, 1, 3}, Winners |-> {}] >>

LiveAmounts == {Committed(G, i) : i \in DOMAIN players \ Folded}

ClockwiseFromDealer(i) ==
    (i - Dealer(G) - 1 + 2 * Cardinality(DOMAIN players)) % Cardinality(DOMAIN players)

\* the players that may win layer k: not folded, contribution up to the layer
EligibleFor(k) == Reaching(ReachOf(status.Pots, k)) \ Folded

\* the eligible players of layer k that hold the highest power
BestOf(k) ==
    {i \in EligibleFor(k) :
        \A j \in EligibleFor(k) :
            players[j].Combination.Power <= players[i].Combination.Power}

\* C18: in a settled hand every layer is paid out completely, only to its
\* eligible non-folded contributors of highest power; tied winners get
\* equal shares and the odd chips go to the tied winner that comes first
\* clockwise from the dealer; a folded player gets nothing, and what the
\* players end with adds up to all the chips of the table.
C18_LayerAward ==
    result # <<>> =>
        /\ \A k \in 1..Len(status.Pots) :
              LET pot == status.Pots[k]
                  paid == [i \in DOMAIN players |-> PotAward(G, pot, i)]
              IN  /\ pot.Winners = BestOf(k)
                  /\ pot.Winners # {}
                  /\ SumOver(paid, DOMAIN players) = pot.Total
                  /\ \A i \in DOMAIN players \ pot.Winners : paid[i] = 0
                  /\ \A i \in pot.Winners :
                        paid[i] = (pot.Total \div Cardinality(pot.Winners))
                                   + (IF \A j \in pot.Winners :
                                            ClockwiseFromDealer(i) <= ClockwiseFromDealer(j)
                                      THEN pot.Total % Cardinality(pot.Winners) ELSE 0)
        /\ \A i \in DOMAIN players :
              result[1].Players[i].Final =
                  players[i].StackSize
                    + SumSeq([k \in 1..Len(status.Pots) |-> PotAward(G, status.Pots[k], i)])
        /\ \A i \in Folded : result[1].Players[i].Final = players[i].StackSize
        /\ SumOver([i \in DOMAIN players |-> result[1].Players[i].Final],
                   DOMAIN players) = TotalBankroll

\* a settled hand in which two tied players split a layer of odd size
C18_Witness ==
    /\ result # <<>>
    /\ \E k \in 1..Len(status.Pots) :
          /\ Cardinality(status.Pots[k].Winners) = 2
          /\ status.Pots[k].Total % 2 = 1

\* a settled hand in which a folded player has left chips to the winners
C18_WitnessFolded ==
    /\ result # <<>>
    /\ earlyNext = 0
    /\ \E i \in Folded : Committed(G, i) > 0
    /\ \E k \in 1..Len(status.Pots) : Cardinality(status.Pots[k].Winners) = 2

\* the betting calls that succeed
AcceptedCalls == {c \in BettingCalls : c[2].Err = ErrNil}

\* the last action of game g is (source, type, value)
LastActionIs(g, source, aType, value) ==
    g.Status.LastAction = <<[Source |-> source, Type |-> aType, Value |-> value]>>

\* C19 (amended): every accepted player action sets lastAction to the
\* actor's seat and the name of the action, with value the actor's total
\* wager after the action for raise and bet, the chips the action added to
\* the wager for call, and 0 for check (and fold and pass); every Next sets
\* lastAction to (-1, next, 0), also when no round is in progress.
C19_LastActionTracking ==
    /\ \A c \in AcceptedCalls :
          LET p == status.CurrentPlayer
              g == c[2]
          IN  /\ Len(g.Status.LastAction) = 1
              /\ g.Status.LastAction[1].Source = p
              /\ g.Status.LastAction[1].Type = c[1]
              /\ c[1] \in {"raise", "bet"} =>
                    g.Status.LastAction[1].Value = g.Players[p].Wager
              /\ c[1] = "call" =>
                    g.Status.LastAction[1].Value = g.Players[p].Wager - players[p].Wager
              /\ c[1] \in {"check", "fold", "pass"} => g.Status.LastAction[1].Value = 0
    /\ LastActionIs(Next(G), -1, "next", 0)

\* C19 as stated: the value is the actor's total wager after the action for
\* call, raise and bet alike.
C19_ValueIsTotalWager ==
    \A c \in AcceptedCalls :
        c[1] \in {"call", "raise", "bet"} =>
            c[2].Status.LastAction[1].Value = c[2].Players[status.CurrentPlayer].Wager

\* the big blind has raised over its blind: the value recorded is its whole
\* wager, and a Next now would be recorded in its place
C19_Witness ==
    /\ err = ErrNil
    /\ status.Round = "preflop"
    /\ status.LastAction # <<>>
    /\ status.LastAction[1].Type = "raise"
    /\ CheckPosition(G, status.LastAction[1].Source, "bb")
    /\ status.LastAction[1].Value = players[status.LastAction[1].Source].Wager
    /\ status.LastAction[1].Value > meta.Blind.BB
    /\ LastActionIs(Next(G), -1, "next", 0)

\* C20: an accepted call records in lastAction the chips it added: the
\* current wager minus the caller's wager before the call, which is what
\* left the caller's stack; it is less than the caller's total wager
\* whenever the caller had chips in the round already.
C20_CallValue ==
    \A c \in AcceptedCalls :
        c[1] = "call" =>
            LET p == status.CurrentPlayer
                value == c[2].Status.LastAction[1].Value
            IN  /\ c[2].Status.LastAction[1].Type = "call"
                /\ value = status.CurrentWager - players[p].Wager
                /\ value = players[p].StackSize - c[2].Players[p].StackSize
                /\ c[2].Players[p].Wager = players[p].Wager + value
                /\ players[p].Wager > 0 => value < c[2].Players[p].Wager

\* the small blind has completed its blind of 5 to the big blind of 10: the
\* call is recorded with value 5
C20_Witness ==
    /\ err = ErrNil
    /\ status.Round = "preflop"
    /\ status.LastAction # <<>>
    /\ status.LastAction[1].Type = "call"
    /\ CheckPosition(G, status.LastAction[1].Source, "sb")
    /\ GetPlayerCount(G) = 3
    /\ players[status.LastAction[1].Source].Wager = meta.Blind.BB
    /\ status.LastAction[1].Value = meta.Blind.BB - meta.Blind.SB
    /\ meta.Blind.SB > 0

\* the last call was a PayAnte that succeeded
AnteJustPaid == err = ErrNil /\ events # <<>> /\ events[1] = "AntePaid"

\* the ante of this hand took the whole bankroll of seat i
BrokeByAnte(i) ==
    meta.Ante > 0 /\ status.Round # "" /\ players[i].Bankroll <= meta.Ante

\* C21: right after PayAnte every player has pot = min(ante, bankroll),
\* wager = 0 and stackSize = bankroll - pot; a player whose bankroll does
\* not exceed the ante has no chips left, and whenever a betting round gives
\* that player the turn the allowed actions are exactly pass, every other betting call is
\* refused, and Pass moves the hand on to another seat or closes the round.
C21_AntePayment ==
    /\ AnteJustPaid =>
          \A i \in DOMAIN players :
              /\ players[i].Pot = Min(meta.Ante, players[i].Bankroll)
              /\ players[i].Wager = 0
              /\ players[i].StackSize = players[i].Bankroll - players[i].Pot
    /\ \A i \in DOMAIN players :
          BrokeByAnte(i) =>
              /\ players[i].StackSize = 0
              /\ status.CurrentEvent = "RoundStarted" /\ status.CurrentPlayer = i =>
                    /\ players[i].AllowedActions = <<"pass">>
                    /\ \A c \in BettingCalls : c[1] # "pass" => c[2].Err # ErrNil
                    /\ LET g == Pass(G)
                       IN  /\ g.Err = ErrNil
                           /\ g.Status.CurrentPlayer # i
                           /\ \/ g.Status.CurrentEvent = "RoundClosed"
                              \/ g.Status.CurrentPlayer = (i + 1) % Cardinality(DOMAIN players)

\* a seat the ante has left without chips has passed its turn, and the round
\* goes on with a seat that still has chips
C21_Witness ==
    /\ status.CurrentEvent = "RoundStarted"
    /\ status.CurrentPlayer # NoPlayer
    /\ \E i \in DOMAIN players :
          /\ BrokeByAnte(i)
          /\ players[i].DidAction = "pass"
          /\ status.CurrentPlayer # i
          /\ players[status.CurrentPlayer].StackSize > 0

\* the ante has just been paid at a table where one seat could only just
\* cover it and another keeps chips
C21_WitnessPaid ==
    /\ AnteJustPaid
    /\ \E i \in DOMAIN players : players[i].Bankroll = meta.Ante
    /\ \E i \in DOMAIN players : players[i].Bankroll > meta.Ante

\* the last call went through the blinds phase of the hand
BlindsJustPaid == err = ErrNil /\ "BlindsPaid" \in SeqToSet(events)

\* what seat i holds when the blinds are due
StackBeforeBlinds(i) == players[i].Bankroll - players[i].Pot

\* the blind seat i owes: the seat's positions decide, the dealer blind
\* first, then the small blind, then the big blind
BlindDue(i) ==
    (IF "dealer" \in players[i].Positions THEN meta.Blind.Dealer ELSE 0)
    + (IF "sb" \in players[i].Positions THEN meta.Blind.SB ELSE 0)
    + (IF "bb" \in players[i].Positions THEN meta.Blind.BB ELSE 0)

BlindWagers ==
    \A i \in DOMAIN players :
        players[i].Wager = Min(BlindDue(i), StackBeforeBlinds(i))

BlindTarget ==
    status.CurrentWager =
        IF meta.Blind.Dealer > meta.Blind.BB THEN meta.Blind.Dealer ELSE meta.Blind.BB

\* C22: for every blind configuration, after the blinds phase the sb seat's
\* wager is min(SB, stack), the bb seat's wager is min(BB, stack), the dealer
\* seat's wager is min(Dealer blind, stack) when the Dealer blind is
\* positive, every other seat's wager is 0, and currentWager is BB (or the
\* Dealer blind when the dealer wager is the one placed).
C22_BlindPayment == BlindsJustPaid => BlindWagers /\ BlindTarget

\* the same for the hands where the blinds were requested and PayBlinds paid
\* them
C22_BlindPaymentWhenRequested ==
    BlindsJustPaid /\ events[1] = "BlindsPaid" => BlindWagers /\ BlindTarget

\* a hand with a big blind only: the blinds phase is over and the big blind
\* seat has posted nothing
C22_BigBlindSkipped ==
    /\ BlindsJustPaid
    /\ meta.Blind = BigBlindOnly
    /\ \A i \in DOMAIN players : players[i].Wager = 0
    /\ status.CurrentWager = 0
    /\ \E i \in DOMAIN players : "bb" \in players[i].Positions /\ players[i].StackSize > 0

\* the hand waits for its first ReadyForAll
BeforeFirstReady == status.CurrentEvent = "ReadyRequested" /\ status.Round = ""

\* nothing has been dealt or paid in g
NothingDealtOrPaid(g) ==
    \A i \in DOMAIN g.Players :
        /\ g.Players[i].HoleCards = <<>>
        /\ g.Players[i].Wager = 0
        /\ g.Players[i].Pot = 0

\* g is at the start of preflop: the hole cards are out
PreflopEntered(g) ==
    /\ g.Status.Round = "preflop"
    /\ \A i \in DOMAIN g.Players : Len(g.Players[i].HoleCards) = g.Meta.HoleCardsCount

\* a successful Start waits at ReadyRequested with nothing dealt
StartWaits ==
    err = ErrNil /\ events # <<>> /\ events[1] = "Started" =>
        BeforeFirstReady /\ NothingDealtOrPaid(G)

\* the first ReadyForAll stops at the ante request, or without ante enters
\* preflop and stops where the claim says: at the blinds request
FirstReady(blindsStop) ==
    BeforeFirstReady =>
        LET g == ReadyForAll(G)
        IN  /\ g.Err = ErrNil
            /\ meta.Ante > 0 =>
                  /\ g.Status.CurrentEvent = "AnteRequested"
                  /\ g.Status.Round = ""
                  /\ NothingDealtOrPaid(g)
            /\ meta.Ante = 0 =>
                  /\ PreflopEntered(g)
                  /\ g.Status.CurrentEvent \in blindsStop

\* after the blinds the hand waits again: no betting call is accepted, and
\* the next ReadyForAll starts the preflop betting with a first actor (or
\* closes the round when nobody has chips left to bet)
SecondReady ==
    BlindsJustPaid =>
        /\ status.CurrentEvent = "ReadyRequested"
        /\ status.Round = "preflop"
        /\ \A c \in BettingCalls : c[2].Err # ErrNil
        /\ LET g == ReadyForAll(G)
           IN  /\ g.Err = ErrNil
               /\ g.Status.Round = "preflop"
               /\ \/ /\ g.Status.CurrentEvent = "RoundStarted"
                     /\ g.Status.CurrentPlayer # NoPlayer
                     /\ g.Players[g.Status.CurrentPlayer].AllowedActions # <<>>
                  \/ /\ g.Status.CurrentEvent = "RoundClosed"
                     /\ GetMovablePlayerCount(G) = 0

\* C23: after a successful Start the engine waits at ReadyRequested; the
\* first ReadyForAll stops at AnteRequested when ante > 0 (no hole cards,
\* wagers and pots 0) or, when ante = 0, enters preflop and stops at the
\* blinds request; after the blinds the engine waits at ReadyRequested again
\* and only the following ReadyForAll starts the preflop betting and
\* designates the first actor.
C23_OpeningSequence ==
    StartWaits /\ FirstReady({"BlindsRequested"}) /\ SecondReady

\* the same, with the hands of a big blind only going from the first
\* ReadyForAll directly to the second wait
C23_OpeningSequenceOrBlindsSkipped ==
    /\ StartWaits
    /\ FirstReady(IF meta.Blind = BigBlindOnly THEN {"ReadyRequested"}
                  ELSE {"BlindsRequested"})
    /\ SecondReady

\* a hand without ante and with a big blind only, after its first
\* ReadyForAll: preflop is entered and the engine is already at the second
\* wait, no blinds were requested
C23_NoBlindsRequest ==
    /\ err = ErrNil
    /\ events # <<>> /\ events[1] = "PreflopRoundEntered"
    /\ meta.Ante = 0
    /\ status.CurrentEvent = "ReadyRequested"
    /\ "BlindsRequested" \notin SeqToSet(events)

\* what the current player's wager becomes by going all-in
AllinWager ==
    players[status.CurrentPlayer].Wager + players[status.CurrentPlayer].StackSize

\* the current player may go all-in, and that tops the current wager by less
\* than the last raise
ShortAllinDue ==
    /\ status.CurrentEvent = "RoundStarted"
    /\ status.CurrentPlayer # NoPlayer
    /\ "allin" \in AllowedNow
    /\ AllinWager > status.CurrentWager
    /\ AllinWager < status.CurrentWager + status.PreviousRaiseSize

\* C24: an all-in that tops the current wager by less than the previous raise
\* size makes its wager the current wager, leaves the acted flag of every
\* player that had acted, leaves previousRaiseSize and the current raiser as
\* they were, and the turn it hands on never goes to a player that had
\* acted.
C24_ShortAllin ==
    ShortAllinDue =>
        LET g == Allin(G)
            p == status.CurrentPlayer
        IN  /\ g.Err = ErrNil
            /\ g.Status.CurrentWager = AllinWager
            /\ g.Players[p].Wager = AllinWager
            /\ g.Players[p].StackSize = 0
            /\ \A j \in DOMAIN players : players[j].Acted => g.Players[j].Acted
            /\ g.Status.PreviousRaiseSize = status.PreviousRaiseSize
            /\ g.Status.CurrentRaiser = status.CurrentRaiser
            /\ \/ g.Status.CurrentEvent = "RoundClosed"
               \/ /\ g.Status.CurrentPlayer # NoPlayer
                  /\ ~players[g.Status.CurrentPlayer].Acted

\* a short all-in is due while another player of the round has acted and
\* has fewer chips in than the all-in will make the current wager
C24_Witness ==
    /\ ShortAllinDue
    /\ \E j \in DOMAIN players :
          /\ j # status.CurrentPlayer
          /\ players[j].Acted
          /\ ~players[j].Fold
          /\ players[j].StackSize > 0

\* the most the current player can have in the round
Coverable ==
    players[status.CurrentPlayer].Wager + players[status.CurrentPlayer].StackSize

BetInRange(chips) ==
    /\ status.CurrentWager = 0
    /\ status.MiniBet <= chips
    /\ chips <= players[status.CurrentPlayer].StackSize

RaiseInRange(chipLevel) ==
    /\ \/ chipLevel >= status.CurrentWager + status.PreviousRaiseSize
       \/ chipLevel = Coverable
    /\ chipLevel <= Coverable

\* C25: Bet(chips) is accepted only when currentWager = 0 and
\* miniBet <= chips <= stack, Raise(chipLevel) only when chipLevel is at least
\* currentWager + previousRaiseSize (or the whole stack goes in) and no more
\* than the player can cover; an amount within the limits is accepted
\* whenever the action is offered, and a rejected call returns an error and
\* leaves the game as it was.
C25_AmountLimits ==
    /\ \A chips \in BetChoices :
          LET g == Bet(G, chips)
          IN  /\ g.Err = ErrNil => ~NoActor(G) /\ BetInRange(chips)
              /\ g.Err # ErrNil => SameGame(g)
              /\ "bet" \in AllowedNow /\ BetInRange(chips) => g.Err = ErrNil
    /\ \A chipLevel \in RaiseChoices :
          LET g == Raise(G, chipLevel)
          IN  /\ g.Err = ErrNil => ~NoActor(G) /\ RaiseInRange(chipLevel)
              /\ g.Err # ErrNil => SameGame(g)
              /\ "raise" \in AllowedNow /\ RaiseInRange(chipLevel) => g.Err = ErrNil

\* the current player is offered raise: one level is accepted and one is
\* turned down for being below a full raise
C25_Witness ==
    /\ "raise" \in AllowedNow
    /\ \E chipLevel \in RaiseChoices : Raise(G, chipLevel).Err = ErrNil
    /\ \E chipLevel \in RaiseChoices :
          /\ chipLevel < status.CurrentWager + status.PreviousRaiseSize
          /\ Raise(G, chipLevel).Err # ErrNil

\* the current player is offered raise: one level is accepted and one is
\* turned down for being more than the player holds
C25_WitnessAboveStack ==
    /\ "raise" \in AllowedNow
    /\ \E chipLevel \in RaiseChoices : Raise(G, chipLevel).Err = ErrNil
    /\ \E chipLevel \in RaiseChoices :
          /\ chipLevel > Coverable
          /\ Raise(G, chipLevel).Err # ErrNil

\* the current player is offered bet: the mini-bet is accepted and a smaller
\* amount is turned down
C25_WitnessBet ==
    /\ "bet" \in AllowedNow
    /\ \E chips \in BetChoices : Bet(G, chips).Err = ErrNil
    /\ \E chips \in BetChoices : chips < status.MiniBet /\ Bet(G, chips).Err # ErrNil

\* C26: in every reachable state every player's stackSize is at least 0, and
\* so are the wager and the pot the chips went to: ante, blinds, call, bet,
\* raise and all-in never take more than the player holds.
C26_NoNegativeStack ==
    \A i \in DOMAIN players :
        /\ players[i].StackSize >= 0
        /\ players[i].Wager >= 0
        /\ players[i].Pot >= 0
        /\ result = <<>> =>
              players[i].StackSize + players[i].Wager + players[i].Pot
                  = players[i].Bankroll

\* PayBlinds has just run and a blind seat could not cover its blind: it
\* posted what it had and holds nothing
C26_Witness ==
    /\ BlindsJustPaid
    /\ events[1] = "BlindsPaid"
    /\ \E i \in DOMAIN players :
          /\ players[i].Wager > 0
          /\ players[i].Wager < BlindDue(i)
          /\ players[i].StackSize = 0

\* C27: while the hand has a round, currentWager is at least the wager of
\* every player, folded or not, and at least 0; this includes the states
\* right after the blinds, with a blind posted short or a Dealer blind posted
\* with SB = BB = 0.
C27_WagerBound ==
    status.Round # "" =>
        /\ status.CurrentWager >= 0
        /\ \A i \in DOMAIN players :
              /\ players[i].Wager >= 0
              /\ players[i].Wager <= status.CurrentWager

\* PayBlinds has just collected a Dealer blind with SB = BB = 0: the dealer's
\* wager is the current wager
C27_Witness ==
    /\ BlindsJustPaid
    /\ events[1] = "BlindsPaid"
    /\ meta.Blind.Dealer > 0 /\ meta.Blind.SB = 0 /\ meta.Blind.BB = 0
    /\ \E i \in DOMAIN players :
          /\ "dealer" \in players[i].Positions
          /\ players[i].Wager = meta.Blind.Dealer
          /\ status.CurrentWager = players[i].Wager

\* PayBlinds has just collected a big blind posted short: every wager is
\* below the current wager
C27_WitnessShort ==
    /\ BlindsJustPaid
    /\ events[1] = "BlindsPaid"
    /\ \E i \in DOMAIN players :
          /\ "bb" \in players[i].Positions
          /\ players[i].Wager > 0
          /\ players[i].Wager < meta.Blind.BB
    /\ \A i \in DOMAIN players : players[i].Wager < status.CurrentWager

\* a folded player's wager stays under the current wager that was raised
\* after the fold
C27_WitnessFolded ==
    /\ status.CurrentEvent = "RoundStarted"
    /\ \E i \in DOMAIN players :
          /\ players[i].Fold
          /\ players[i].Wager > 0
          /\ players[i].Wager < status.CurrentWager

\* a player's last action of this round was the opening bet
OpenedNow == \E i \in DOMAIN players : players[i].DidAction = "bet"

\* a player's last action of this round was a raise, or an all-in that put
\* chips into the round
RaisedNow ==
    \E i \in DOMAIN players :
        \/ players[i].DidAction = "raise"
        \/ players[i].DidAction = "allin" /\ players[i].Wager > 0

\* C28 (as stated): previousRaiseSize is at least 0, and greater than 0 only
\* if some player has raised in the current round above the opening bet, so
\* it is 0 after the blinds alone and after an opening bet that nobody has
\* raised.
C28_OnlyAfterRaise ==
    /\ status.PreviousRaiseSize >= 0
    /\ status.PreviousRaiseSize > 0 => RaisedNow
    /\ BlindsJustPaid => status.PreviousRaiseSize = 0
    /\ OpenedNow /\ ~RaisedNow => status.PreviousRaiseSize = 0

\* C28: previousRaiseSize is at least 0, and greater than 0 only if some
\* player has made the opening bet or a raise in the current round; it is 0
\* after the blinds alone, and after an opening bet that nobody has raised
\* it is the amount of that bet.
C28_PreviousRaise ==
    /\ status.PreviousRaiseSize >= 0
    /\ status.PreviousRaiseSize > 0 => OpenedNow \/ RaisedNow
    /\ BlindsJustPaid => status.PreviousRaiseSize = 0
    /\ OpenedNow /\ ~RaisedNow =>
          /\ status.PreviousRaiseSize > 0
          /\ status.PreviousRaiseSize = status.CurrentWager

\* an opening bet has been called and nobody has raised: the previous raise
\* size is the bet
C28_Witness ==
    /\ status.CurrentEvent = "RoundStarted"
    /\ OpenedNow
    /\ ~RaisedNow
    /\ \E i \in DOMAIN players : players[i].DidAction = "call"
    /\ status.PreviousRaiseSize = status.MiniBet

\* a raise over the blinds: the previous raise size is the raise's increment
C28_WitnessRaise ==
    /\ status.Round = "preflop"
    /\ status.CurrentEvent = "RoundStarted"
    /\ \E i \in DOMAIN players : players[i].DidAction = "raise"
    /\ status.PreviousRaiseSize = status.CurrentWager - meta.Blind.BB
    /\ status.PreviousRaiseSize > 0

\* the calls NativeBackend passes on that take no amount, applied to g
PlainCalls(g) ==
    << Next(g), ReadyForAll(g), PayAnte(g), PayBlinds(g),
       Pass(g), Fold(g), Check(g), Call(g), Allin(g) >>

\* the game NativeBackend runs a call on: rebuilt from a copy of the state
Rebuilt == NewGameFromState(cloneState(GetState(G)))

\* what NativeBackend hands back after a call that left the game as c: a
\* copy of the state on success; it is the state itself
HandsBack(c) == c.Err = ErrNil => cloneState(GetState(c)) = GetState(c)

C29_WitnessDealing ==
    /\ status.Round = "preflop"
    /\ status.CurrentEvent = "RoundClosed"
    /\ status.CurrentDeckPosition > 0
    /\ Next(Rebuilt).Status.Round = "flop"
    /\ Len(Next(Rebuilt).Status.Board) = 3

\* the round, the turn, the acted flags, the cards and the chips of g are
\* those of the current state
SameHand(g) ==
    /\ g.Status.Round = status.Round
    /\ g.Status.CurrentPlayer = status.CurrentPlayer
    /\ g.Status.Board = status.Board
    /\ g.Status.CurrentDeckPosition = status.CurrentDeckPosition
    /\ g.Status.CurrentWager = status.CurrentWager
    /\ g.Status.CurrentRoundPot = status.CurrentRoundPot
    /\ \A i \in DOMAIN players :
          /\ g.Players[i].Acted = players[i].Acted
          /\ g.Players[i].StackSize = players[i].StackSize
          /\ g.Players[i].Wager = players[i].Wager
          /\ g.Players[i].Pot = players[i].Pot

\* Resume on the game loaded from the snapshot of the current state emits
\* first the event the snapshot names, and nothing when it names none
ResumeReemits(g) ==
    /\ g.Err = ErrNil
    /\ IF status.CurrentEvent = "" THEN g.Events = <<>>
       ELSE g.Events # <<>> /\ g.Events[1] = status.CurrentEvent

\* C30: on the snapshot of any reachable state, LoadState and Resume re-emit
\* exactly the event named by status.currentEvent (nothing when it is
\* empty), and afterwards the round, the current player, the acted flags,
\* the board, currentDeckPosition and all chip amounts are those of the
\* snapshot.
C30_ResumeSafe ==
    LET g == Resume(Rebuilt)
    IN  ResumeReemits(g) /\ SameHand(g)

\* the same for the snapshots taken where the engine waits for the driver
\* outside a betting round
C30_ResumeSafeOutsideBetting ==
    status.CurrentEvent # "RoundStarted" =>
        LET g == Resume(Rebuilt)
        IN  ResumeReemits(g) /\ SameHand(g) /\ GetState(g) = GetState(G)

\* a snapshot taken while a player is to act: Resume emits RoundStarted
\* again, and the turn has left that player before any action
C30_ResumeMovesTurn ==
    /\ status.CurrentEvent = "RoundStarted"
    /\ status.CurrentPlayer # NoPlayer
    /\ "call" \in AllowedNow
    /\ LET g == Resume(Rebuilt)
       IN  /\ g.Err = ErrNil
           /\ g.Events[1] = "RoundStarted"
           /\ g.Status.CurrentPlayer # status.CurrentPlayer

(***************************************************************************)
(* The driver that delivers what the engine asks for: every call it makes  *)
(* is accepted, and it calls Next only after a round has closed.           *)
(***************************************************************************)
\* the engine accepted the call, and the call was not an early Next
Accepted == err' = ErrNil /\ earlyNext' = earlyNext

ServedStart == DoStart /\ Accepted

ServedReadyForAll == DoReadyForAll /\ Accepted

ServedPayAnte == DoPayAnte /\ Accepted

ServedPayBlinds == DoPayBlinds /\ Accepted

ServedNext == status.CurrentEvent = "RoundClosed" /\ DoNext /\ Accepted

ServedPass == DoPass /\ Accepted

ServedFold == DoFold /\ Accepted

ServedCheck == DoCheck /\ Accepted

ServedCall == DoCall /\ Accepted

ServedAllin == DoAllin /\ Accepted

ServedBet == DoBet /\ Accepted

ServedRaise == DoRaise /\ Accepted

Serve ==
    \/ ServedStart
    \/ ServedReadyForAll
    \/ ServedPayAnte
    \/ ServedPayBlinds
    \/ ServedNext
    \/ ServedPass
    \/ ServedFold
    \/ ServedCheck
    \/ ServedCall
    \/ ServedAllin
    \/ ServedBet
    \/ ServedRaise

\* the call was accepted and moved the game
Moves(g) == g.Err = ErrNil /\ ~SameGame(g)

\* the engine accepts some call of the driver and the call moves the game:
\* a step of Serve that changes the state can be taken
CanServe ==
    \/ /\ status.CurrentEvent = ""
       /\ \E deck \in ShuffleCards(meta.Deck) : Moves(Start(G, deck))
    \/ Moves(ReadyForAll(G))
    \/ Moves(PayAnte(G))
    \/ Moves(PayBlinds(G))
    \/ status.CurrentEvent = "RoundClosed" /\ Moves(Next(G))
    \/ \E c \in BettingCalls : Moves(c[2])

\* the driver does not stop while the engine accepts a call: it starts the
\* hand, and as long as a call can be served it goes on serving.  The second
\* condition is weak fairness of Serve, written with the state predicate
\* CanServe for the enabledness of a state-changing Serve step.
ServedFairness ==
    /\ WF_vars(ServedStart)
    /\ []<>(~CanServe) \/ []<><<Serve>>_vars

ServedSpec == Init /\ [][Serve]_vars /\ ServedFairness

HandStarted == status.CurrentEvent # ""

\* GameCompleted has fired and the settlement has filled the Result
HandCompleted ==
    /\ result # <<>>
    /\ status.CurrentEvent = "GameClosed"
    /\ status.CurrentPlayer = NoPlayer

BettingOpen == status.CurrentEvent = "RoundStarted"

SettlesAgain(g) == "SettlementRequested" \in SeqToSet(g.Events)

\* the call left the Result, every stack and the pots as they were
SameChips(g) ==
    /\ g.Result = result
    /\ g.Status.Pots = status.Pots
    /\ \A i \in DOMAIN players : g.Players[i].StackSize = players[i].StackSize

\* every call a driver can make other than Start and Next
ActionCalls ==
    { c[2] : c \in BettingCalls } \cup { ReadyForAll(G), PayAnte(G), PayBlinds(G) }

\* C32: once GameCompleted has fired and the Result is populated, a further
\* Next or any action call does not settle again and leaves the Result,
\* every player's stackSize and the pots unchanged.
C32_CompletedIsTerminal ==
    HandCompleted =>
        LET n == Next(G)
        IN  /\ ~SettlesAgain(n)
            /\ SameChips(n)
            /\ \A g \in ActionCalls : ~SettlesAgain(g) /\ SameChips(g)

\* what does hold after completion: every action call is refused and changes
\* nothing, and a further Next, which settles again, computes the same
\* Result over the same pots and stacks
C32_SameResultAgain ==
    HandCompleted =>
        LET n == Next(G)
        IN  /\ n.Err = ErrNil
            /\ SettlesAgain(n)
            /\ n.Status.CurrentEvent = "GameClosed"
            /\ SameChips(n)
            /\ \A g \in ActionCalls : g.Err # ErrNil /\ SameGame(g)

\* a player is still due to act in the current betting round
PlayerDue ==
    /\ status.Round \in SeqToSet(Rounds)
    /\ status.CurrentEvent = "RoundStarted"
    /\ ~NoActor(G)

\* the call left wagers, pots, round label, board and deck position alone
RoundUntouched(g) ==
    /\ \A i \in DOMAIN players :
          /\ g.Players[i].Wager = players[i].Wager
          /\ g.Players[i].Pot = players[i].Pot
    /\ g.Status.Pots = status.Pots
    /\ g.Status.Round = status.Round
    /\ g.Status.Board = status.Board
    /\ g.Status.CurrentDeckPosition = status.CurrentDeckPosition

\* C33: Next called while a player is still due to act returns NotClosedRound
\* and changes neither wagers, pots, round label, board nor deck position.
C33_NextRequiresClosedRound ==
    PlayerDue =>
        LET n == Next(G)
        IN  n.Err = "ErrNotClosedRound" /\ RoundUntouched(n)

\* what Next does while a player is due: it returns no error and ends the
\* betting round where it stands, by leaving the street or the hand
C33_NextCutsRoundShort ==
    PlayerDue =>
        LET n == Next(G)
        IN  /\ n.Err = ErrNil
            /\ n.Status.CurrentEvent # "RoundStarted"
            /\ \/ n.Status.Round # status.Round
               \/ n.Status.CurrentEvent = "GameClosed"
            /\ \A i \in DOMAIN players : n.Players[i].Wager = 0

\* RoundClosed has fired and more than one player is alive
ClosedAmongSeveral ==
    /\ status.CurrentEvent = "RoundClosed"
    /\ Cardinality(AliveSeats) > 1

\* seat i has not folded, has chips left and has less in than the current wager
Owes(i) ==
    /\ ~players[i].Fold
    /\ players[i].StackSize > 0
    /\ players[i].Wager # status.CurrentWager

\* C34: whenever RoundClosed fires while more than one player is alive, every
\* non-folded player has wager = currentWager or is all-in; no alive player
\* with chips left ends a round owing chips, a short all-in that raised the
\* current wager included.
C34_MatchedWagers ==
    ClosedAmongSeveral => \A i \in DOMAIN players : ~Owes(i)

\* what does hold at closure: nobody has more in than the current wager, and
\* a player with chips left has less in only below an all-in that topped the
\* current wager without becoming the raiser
C34_OwingOnlyToShortAllin ==
    ClosedAmongSeveral =>
        \A i \in DOMAIN players :
            /\ players[i].Wager <= status.CurrentWager
            /\ Owes(i) =>
                  /\ players[i].Acted
                  /\ \E j \in DOMAIN players :
                        /\ players[j].StackSize = 0
                        /\ players[j].DidAction = "allin"
                        /\ players[j].Wager = status.CurrentWager
                        /\ status.CurrentRaiser # j

\* every player's round-start snapshot is what it holds for this round
SnapshotHolds ==
    \A i \in DOMAIN players :
        players[i].InitialStackSize = players[i].StackSize + players[i].Wager

\* call is offered to the current player
CallAllowed == ~NoActor(G) /\ "call" \in AllowedNow

\* C35: at every point of a betting round, preflop after ante and blinds
\* included, initialStackSize = stackSize + wager for every player; whenever
\* call is allowed the caller's stack strictly exceeds the call amount, and a
\* Call ends with wager = currentWager and stackSize > 0.
C35_RoundStartSnapshot ==
    /\ status.Round # "" => SnapshotHolds
    /\ CallAllowed =>
          LET p == status.CurrentPlayer
              g == Call(G)
          IN  /\ players[p].StackSize > status.CurrentWager - players[p].Wager
              /\ status.CurrentWager - players[p].Wager > 0
              /\ g.Err = ErrNil
              /\ g.Players[p].Wager = status.CurrentWager
              /\ g.Status.CurrentWager = status.CurrentWager
              /\ g.Players[p].StackSize > 0
              /\ g.Players[p].StackSize
                    = players[p].StackSize - (status.CurrentWager - players[p].Wager)

\* call is offered preflop to a player that has paid an ante and a blind
C35_Witness ==
    /\ CallAllowed
    /\ status.Round = "preflop"
    /\ meta.Ante > 0
    /\ players[status.CurrentPlayer].Wager > 0
    /\ players[status.CurrentPlayer].Pot > 0

\* a call accepted on a later street has left the caller with the current
\* wager in and chips behind
C35_WitnessCalled ==
    /\ err = ErrNil
    /\ status.Round \in {"flop", "turn", "river"}
    /\ status.LastAction # <<>>
    /\ status.LastAction[1].Type = "call"
    /\ LET p == status.LastAction[1].Source
       IN  /\ players[p].Wager = status.CurrentWager
           /\ players[p].StackSize > 0
           /\ players[p].InitialStackSize = players[p].StackSize + players[p].Wager

\* the engine waits for ReadyForAll, PayAnte, PayBlinds or Next
AwaitingDriver ==
    status.CurrentEvent \in
        {"ReadyRequested", "AnteRequested", "BlindsRequested", "RoundClosed"}

BettingNames == {"pass", "fold", "check", "call", "allin", "bet", "raise"}

\* C36: while the engine waits for ReadyForAll, PayAnte, PayBlinds or Next,
\* the current player pointing at a seat or not, every betting call fails
\* without changing the state and no seat is offered a betting action;
\* betting calls are accepted only between RoundStarted and RoundClosed.
C36_BettingOnlyInsideRound ==
    /\ AwaitingDriver =>
          /\ \A c \in BettingCalls : c[2].Err # ErrNil /\ SameGame(c[2])
          /\ \A i \in DOMAIN players :
                SeqToSet(players[i].AllowedActions) \cap BettingNames = {}
    /\ \A c \in BettingCalls :
          c[2].Err = ErrNil => status.CurrentEvent = "RoundStarted"

\* the engine waits for the ReadyForAll of a postflop round with the current
\* player pointing at the dealer seat
C36_Witness ==
    /\ status.CurrentEvent = "ReadyRequested"
    /\ status.Round \in {"flop", "turn", "river"}
    /\ status.CurrentPlayer # NoPlayer
    /\ "dealer" \in players[status.CurrentPlayer].Positions
    /\ earlyNext = 0

\* the call that has just returned entered preflop and came to the blinds
AtBlinds ==
    /\ err = ErrNil
    /\ "RoundInitialized" \in SeqToSet(events)
    /\ status.Round = "preflop"

NoBlindOwed == meta.Blind.Dealer = 0 /\ meta.Blind.SB = 0 /\ meta.Blind.BB = 0

\* BlindsPaid was emitted with no BlindsRequested and no PayBlinds call
BlindsBypassed ==
    /\ "BlindsPaid" \in SeqToSet(events)
    /\ "BlindsRequested" \notin SeqToSet(events)

\* C37: the engine emits BlindsPaid without BlindsRequested and without any
\* PayBlinds call only when the Dealer, SB and BB blinds are all 0; whenever
\* a blind amount is positive it stops at BlindsRequested.
C37_BypassOnlyWhenNoneOwed ==
    AtBlinds =>
        /\ BlindsBypassed => NoBlindOwed
        /\ ~NoBlindOwed =>
              /\ status.CurrentEvent = "BlindsRequested"
              /\ "BlindsPaid" \notin SeqToSet(events)

\* what the engine does: it bypasses the blinds exactly when a big blind is
\* set and the Dealer and SB blinds are 0, and then nobody has paid anything
C37_BypassWhenBigBlindAlone ==
    AtBlinds =>
        IF meta.Blind.Dealer = 0 /\ meta.Blind.SB = 0 /\ meta.Blind.BB > 0
        THEN /\ BlindsBypassed
             /\ status.CurrentEvent = "ReadyRequested"
             /\ \A i \in DOMAIN players : players[i].Wager = 0
        ELSE /\ status.CurrentEvent = "BlindsRequested"
             /\ "BlindsPaid" \notin SeqToSet(events)

\* the event that enters a postflop street
StreetEvent == [r \in {"flop", "turn", "river"} |->
                  CASE r = "flop" -> "FlopRoundEntered"
                    [] r = "turn" -> "TurnRoundEntered"
                    [] OTHER -> "RiverRoundEntered"]

\* no seat of g is offered an action
NobodyAsked(g) ==
    /\ g.Status.CurrentPlayer = NoPlayer
    /\ \A i \in DOMAIN g.Players : g.Players[i].AllowedActions = <<>>

\* from the closed round of g, Next calls alone deal what is left of the
\* board, each street closed as it is dealt, up to the settlement
RECURSIVE RunsOut(_)
RunsOut(g) ==
    /\ g.Err = ErrNil
    /\ "ReadyRequested" \notin SeqToSet(g.Events)
    /\ "RoundStarted" \notin SeqToSet(g.Events)
    /\ NobodyAsked(g)
    /\ IF g.Status.CurrentEvent = "GameClosed"
       THEN g.Result # <<>> /\ Len(g.Status.Board) = 5
       ELSE /\ g.Status.CurrentEvent = "RoundClosed"
            /\ Len(g.Status.Board) = BoardSizeIn[g.Status.Round]
            /\ RunsOut(Next(g))

\* C38: when Next enters a flop, turn or river round with at most one movable
\* player, RoundClosed is emitted right after the street is dealt, with no
\* ReadyRequested, no RoundStarted and no player offered an action, and
\* successive Next calls alone reach GameCompleted; with two movable players
\* the round waits for ReadyForAll.  Preflop is closed without RoundStarted
\* only when nobody can move.
C38_AllinRunOut ==
    /\ ClosedAmongSeveral /\ status.Round \in {"preflop", "flop", "turn"} =>
          LET n == Next(G)
          IN  IF Cardinality(MovableSeats) <= 1
              THEN /\ n.Events = <<StreetEvent[StreetAfter[status.Round]],
                                   "RoundInitialized", "RoundClosed">>
                   /\ RunsOut(n)
              ELSE /\ n.Status.CurrentEvent = "ReadyRequested"
                   /\ "RoundClosed" \notin SeqToSet(n.Events)
    /\ status.CurrentEvent = "ReadyRequested" /\ status.Round = "preflop" =>
          LET r == ReadyForAll(G)
          IN  IF Cardinality(MovableSeats) = 0
              THEN r.Events = <<"RoundPrepared", "RoundClosed">> /\ NobodyAsked(r)
              ELSE /\ r.Events = <<"RoundPrepared", "RoundStarted">>
                   /\ r.Status.CurrentPlayer # NoPlayer
                   /\ r.Players[r.Status.CurrentPlayer].AllowedActions # <<>>

\* a flop was closed as it was dealt: two players alive, one of them all-in
C38_Witness ==
    /\ err = ErrNil
    /\ events = <<"FlopRoundEntered", "RoundInitialized", "RoundClosed">>
    /\ Cardinality(AliveSeats) > 1
    /\ Cardinality(MovableSeats) = 1
    /\ earlyNext = 0

\* preflop was closed without a betting round: nobody had chips left
C38_WitnessPreflop ==
    /\ err = ErrNil
    /\ events = <<"RoundPrepared", "RoundClosed">>
    /\ status.Round = "preflop"
    /\ MovableSeats = {}

\* preflop was started with one player able to move, who is asked to act
C38_WitnessPreflopOneMovable ==
    /\ err = ErrNil
    /\ events = <<"RoundPrepared", "RoundStarted">>
    /\ status.Round = "preflop"
    /\ Cardinality(MovableSeats) = 1

\* every call a driver can make on a hand that has started
DriverCalls == ActionCalls \cup {Next(G)}

HoleCardsDealt ==
    SumOver([i \in DOMAIN players |-> Len(players[i].HoleCards)], DOMAIN players)

\* the cards that have left the deck
CardsOut ==
    UNION {SeqToSet(players[i].HoleCards) : i \in DOMAIN players}
        \cup SeqToSet(status.Board) \cup SeqToSet(status.Burned)

\* the counts that fit between the cursor and the end of the deck
DealCounts == {n \in 1..3 : status.CurrentDeckPosition + n <= Len(meta.Deck)}

\* C39: currentDeckPosition never decreases; Deal(n) and Burn(n) take exactly
\* the n deck entries at the cursor and advance it by n; in every reachable
\* state the cursor equals the hole cards dealt (player count x
\* holeCardsCount once preflop is initialized) plus the board size plus the
\* burned size; no card appears twice among hole cards, board and burned
\* cards.
C39_DeckCursor ==
    /\ \A g \in DriverCalls :
          g.Status.CurrentDeckPosition >= status.CurrentDeckPosition
    /\ \A n \in DealCounts :
          LET cards == DealtCards(G, n)
              pos == status.CurrentDeckPosition
          IN  /\ Len(cards) = n
              /\ \A k \in 1..n : cards[k] = meta.Deck[pos + k]
              /\ Deal(G, n).Status.CurrentDeckPosition = pos + n
              /\ Burn(G, n).Status.CurrentDeckPosition = pos + n
              /\ Burn(G, n).Status.Burned = status.Burned \o cards
    /\ HoleCardsDealt =
          (IF status.Round = "" THEN 0
           ELSE Cardinality(DOMAIN players) * meta.HoleCardsCount)
    /\ status.CurrentDeckPosition =
          HoleCardsDealt + Len(status.Board) + Len(status.Burned)
    /\ Cardinality(CardsOut) = status.CurrentDeckPosition
    /\ CardsOut = {meta.Deck[k] : k \in 1..status.CurrentDeckPosition}

\* a hand of three players dealt to the river: six hole cards, five board
\* cards and three burned cards have left the deck
C39_Witness ==
    /\ Cardinality(DOMAIN players) = 3
    /\ status.Round = "river"
    /\ status.CurrentDeckPosition = 14
    /\ Len(status.Burned) = 3
    /\ earlyNext = 0

\* what seat i holds in g: stack, wager of the round and pot of the hand
Held(g, i) == g.Players[i].StackSize + g.Players[i].Wager + g.Players[i].Pot

\* the call moved chips of no seat anywhere but from its stack to its own
\* wager or pot
OnlyCommits(g) ==
    \A i \in DOMAIN players :
        /\ Held(g, i) = players[i].StackSize + players[i].Wager + players[i].Pot
        /\ g.Players[i].StackSize <= players[i].StackSize
        /\ g.Players[i].Pot >= players[i].Pot
        /\ g.Players[i].Bankroll = players[i].Bankroll

\* the call moved every seat's wager into the seat's own pot and nothing else
WagersToPots(g) ==
    \A i \in DOMAIN players :
        /\ g.Players[i].StackSize = players[i].StackSize
        /\ g.Players[i].Wager = 0
        /\ g.Players[i].Pot = players[i].Pot + players[i].Wager
        /\ g.Players[i].Bankroll = players[i].Bankroll

\* C40: in every reachable state before settlement the sum over the players
\* of stackSize + wager + pot equals the sum of the bankrolls; ante and blind
\* payments and betting actions only move chips from a player's stackSize to
\* the same player's wager or pot, and round advancement only moves each
\* player's wager into the same player's pot.
C40_HeldChipsConserved ==
    result = <<>> =>
        /\ ChipsOfPlayers = TotalBankroll
        /\ status.CurrentEvent = "" =>
              \A i \in DOMAIN players :
                  players[i].StackSize = players[i].Bankroll /\ Held(G, i) = players[i].Bankroll
        /\ \A c \in BettingCalls : LET g == c[2] IN OnlyCommits(g)
        /\ LET g == PayAnte(G) IN OnlyCommits(g)
        /\ LET g == PayBlinds(G) IN OnlyCommits(g)
        /\ status.Round \in SeqToSet(Rounds) => LET n == Next(G) IN WagersToPots(n)

\* Next has moved the wagers of a round with a raise into the pots of two
\* seats that still hold chips
C40_Witness ==
    /\ err = ErrNil
    /\ result = <<>>
    /\ events # <<>> /\ events[1] \in {"FlopRoundEntered", "TurnRoundEntered"}
    /\ earlyNext = 0
    /\ \E i, j \in DOMAIN players :
          /\ i # j
          /\ players[i].Pot > meta.Blind.BB + meta.Ante
          /\ players[i].StackSize > 0
          /\ players[j].Pot > 0
          /\ players[j].StackSize > 0
          /\ players[i].Wager = 0

====
